---------------------------- MODULE Spec2Model ----------------------------
(***************************************************************************)
(* A model of the scorecard generator (src/js): the WCIF accessor          *)
(* (wcif.js), the option model (options.js), the scorecard data deriver    *)
(* and PDF driver (sc_data.js) and the page controller (main.js).          *)
(*                                                                         *)
(* Conventions.                                                            *)
(*  - A JavaScript string that the code takes apart or builds with a       *)
(*    template literal is a sequence of tokens: `333-r1-g2` is             *)
(*    <<"333", "-r", "1", "-g", "2">>.  Room names are sequences of        *)
(*    one-character tokens.                                                *)
(*  - JavaScript null in a numeric field is Null; in a name field it is    *)
(*    NullName; a null object is NullObj.                                  *)
(*  - A number of pages that may be fractional (k / 4) is kept as the      *)
(*    integer k, its number of quarter pages.                              *)
(***************************************************************************)
EXTENDS Integers, Sequences, FiniteSets, TLC

VARIABLES
    wcif,           \* main.js `wcif`: the competition document, or NullObj
    optionsObj,     \* the optionsObj of the last optionsToPdf run (id -> Option)
    saved,          \* documents saved by the last genScPdfsFromWcif run
    advCall,        \* the last getNumAdvancingToRound call and its result
    idCall,         \* the last genId calls and their results
    nlCall,         \* the last getNewlineIndex call and its result
    compIdFormHidden,   \* compIdForm has class form--hidden
    optionsFormHidden,  \* optionsForm has class form--hidden
    optionsTabArr,  \* main.js `optionsTabArr`: the option tabs, or NullObj
    optionsFormInputs,  \* the inputs appended to optionsForm, in document order
    pending,        \* compIdToOptions calls suspended at `await WCIF.fromCompId`
    formError,      \* text shown in #formError ("" when hidden)
    numSubmits      \* number of competition-id submits so far

derivVars == <<wcif, optionsObj, saved>>
pureVars == <<advCall, idCall, nlCall>>
uiVars == <<compIdFormHidden, optionsFormHidden, optionsTabArr, optionsFormInputs,
            pending, formError, numSubmits>>
vars == <<derivVars, pureVars, uiVars>>

---------------------------------------------------------------------------
(* Bounds of the model *)

\* persons in the competition document
MaxPersons == 4
\* rounds of the event under study
MaxRounds == 2
\* rounds of the event in the documents given to getNumAdvancingToRound
MaxAdvRounds == 3
\* characters of a room name given to RoomOption.genId
MaxRoomLen == 4
\* largest number of blank pages typed into a round-blanks input
MaxBlankPages == 1
\* competition-id submits in one session
MaxSubmits == 2
\* characters of the regular text given to getNewlineIndex
MaxTextLen == 5

(* Program constants *)

\* const scPerPage = 4 (getScDataForRoundBlanks, getBlankPagesForRound)
scPerPage == 4

Null == -1
NullName == <<"null">>
NullObj == [null |-> TRUE]
Undefined == <<"undefined">>

---------------------------------------------------------------------------
(* JavaScript array and string helpers *)

RECURSIVE FlattenUpTo(_, _)
\* the concatenation of the first n elements of a sequence of sequences
FlattenUpTo(ss, n) ==
    IF n = 0 THEN <<>> ELSE FlattenUpTo(ss, n - 1) \o ss[n]

\* Array.prototype.flat for one level: the concatenation of a sequence of sequences
Flatten(ss) == FlattenUpTo(ss, Len(ss))

\* index of the first element of s that is in the set T, or 0
FirstIndexIn(s, T) ==
    IF \E i \in 1..Len(s) : s[i] \in T
    THEN CHOOSE i \in 1..Len(s) : s[i] \in T /\ \A j \in 1..(i - 1) : s[j] \notin T
    ELSE 0

RECURSIVE split(_, _)
\* String.prototype.split(sep) on a token sequence: the pieces between the
\* occurrences of the token sep
split(s, sep) ==
    LET i == FirstIndexIn(s, {sep})
    IN IF i = 0 THEN <<s>>
       ELSE <<SubSeq(s, 1, i - 1)>> \o split(SubSeq(s, i + 1, Len(s)), sep)

Numerals == 0..20

\* Number(string): the value of a numeral token sequence (Null stands for NaN)
Number(ts) ==
    IF Len(ts) = 1 /\ \E n \in Numerals : ToString(n) = ts[1]
    THEN CHOOSE n \in Numerals : ToString(n) = ts[1]
    ELSE Null

\* String.prototype.replace(from, to) with a string pattern: only the FIRST
\* occurrence is replaced
replace(s, from, to) ==
    LET i == FirstIndexIn(s, {from})
    IN IF i = 0 THEN s ELSE [s EXCEPT ![i] = to]

\* String.prototype.replaceAll(from, to)
replaceAll(s, from, to) ==
    [i \in 1..Len(s) |-> IF s[i] = from THEN to ELSE s[i]]

\* the string a sequence of tokens stands for
RECURSIVE Str(_)
Str(ts) == IF ts = <<>> THEN "" ELSE Head(ts) \o Str(Tail(ts))

RECURSIVE trimStart(_)
\* String.prototype.trimStart on a sequence of one-character tokens
trimStart(s) == IF s # <<>> /\ Head(s) = " " THEN trimStart(Tail(s)) ELSE s

RECURSIVE trimEnd(_)
\* String.prototype.trimEnd on a sequence of one-character tokens
trimEnd(s) ==
    IF s # <<>> /\ s[Len(s)] = " " THEN trimEnd(SubSeq(s, 1, Len(s) - 1)) ELSE s

\* String.prototype.trim
trim(s) == trimEnd(trimStart(s))

RECURSIVE join(_, _)
\* Array.prototype.join(sep) on an array of strings
join(parts, sep) ==
    IF parts = <<>> THEN ""
    ELSE IF Len(parts) = 1 THEN parts[1]
    ELSE parts[1] \o sep \o join(Tail(parts), sep)

---------------------------------------------------------------------------
(* wcif.js: class WCIF.  w is the #data object of a WCIF instance. *)

\* the ids of all the events
getEventIdsUnfiltered(w) == [i \in 1..Len(w.events) |-> w.events[i].id]

\* getEventIds(): every event id except '333fm', in document order
getEventIds(w) ==
    SelectSeq([i \in 1..Len(w.events) |-> w.events[i].id], LAMBDA x : x # "333fm")

\* WCIF.eventIdToName[eventId]; a name is the sequence of its words and spaces
eventIdToName(eventId) ==
    CASE eventId = "333" -> <<"3x3x3", " ", "Cube">>
      [] eventId = "222" -> <<"2x2x2", " ", "Cube">>
      [] eventId = "444" -> <<"4x4x4", " ", "Cube">>
      [] eventId = "555" -> <<"5x5x5", " ", "Cube">>
      [] eventId = "666" -> <<"6x6x6", " ", "Cube">>
      [] eventId = "777" -> <<"7x7x7", " ", "Cube">>
      [] eventId = "333bf" -> <<"3x3x3", " ", "Blindfolded">>
      [] eventId = "333fm" -> <<"3x3x3", " ", "Fewest", " ", "Moves">>
      [] eventId = "333oh" -> <<"3x3x3", " ", "One-Handed">>
      [] eventId = "clock" -> <<"Clock">>
      [] eventId = "minx" -> <<"Megaminx">>
      [] eventId = "pyram" -> <<"Pyraminx">>
      [] eventId = "skewb" -> <<"Skewb">>
      [] eventId = "sq1" -> <<"Square-1">>
      [] eventId = "444bf" -> <<"4x4x4", " ", "Blindfolded">>
      [] eventId = "555bf" -> <<"5x5x5", " ", "Blindfolded">>
      [] eventId = "333mbf" -> <<"3x3x3", " ", "Multi-Blind">>

\* #getEventObj(eventId): the first event object with that id
getEventObj(w, eventId) ==
    w.events[CHOOSE i \in 1..Len(w.events) :
                /\ w.events[i].id = eventId
                /\ \A j \in 1..(i - 1) : w.events[j].id # eventId]

\* the template literal `${eventId}-r${round}`
RoundId(eventId, round) == <<eventId, "-r", ToString(round)>>

\* #getRoundObj(eventId, round)
getRoundObj(w, eventId, round) ==
    LET rounds == getEventObj(w, eventId).rounds
    IN rounds[CHOOSE i \in 1..Len(rounds) :
                /\ rounds[i].id = RoundId(eventId, round)
                /\ \A j \in 1..(i - 1) : rounds[j].id # RoundId(eventId, round)]

\* #getActCode(eventId, round)
getActCode(eventId, round) ==
    IF eventId = "333mbf"
    THEN <<eventId, "-r", ToString(round), "-a", "1">>
    ELSE <<eventId, "-r", ToString(round)>>

\* getNumRounds(eventId)
getNumRounds(w, eventId) == Len(getEventObj(w, eventId).rounds)

\* #getRoomObjs(): venues.flatMap(x => x.rooms)
getRoomObjs(w) ==
    Flatten([i \in 1..Len(w.schedule.venues) |-> w.schedule.venues[i].rooms])

\* getRoomNames()
getRoomNames(w) ==
    [i \in 1..Len(getRoomObjs(w)) |-> getRoomObjs(w)[i].name]

\* getNumRooms()
getNumRooms(w) == Len(getRoomObjs(w))

\* #getTopLevelActObjs(): roomObjs.flatMap(x => x.activities)
getTopLevelActObjs(w) ==
    Flatten([i \in 1..Len(getRoomObjs(w)) |-> getRoomObjs(w)[i].activities])

\* getGroupActIds(eventId, round)
getGroupActIds(w, eventId, round) ==
    LET roundId == getActCode(eventId, round)
        matching == SelectSeq(getTopLevelActObjs(w), LAMBDA x : x.activityCode = roundId)
        children == Flatten([i \in 1..Len(matching) |-> matching[i].childActivities])
    IN [i \in 1..Len(children) |-> children[i].id]

\* #getGroupActObjs(): actObjs.flatMap(x => x.childActivities)
getGroupActObjs(w) ==
    LET actObjs == getTopLevelActObjs(w)
    IN Flatten([i \in 1..Len(actObjs) |-> actObjs[i].childActivities])

\* any assignment to the activity, whatever its code
competingInActAnyCode(personObj, actId) ==
    \E i \in 1..Len(personObj.assignments) :
        personObj.assignments[i].activityId = actId

\* competingInAct(personObj) of getCompetitorsFromActId
competingInAct(personObj, actId) ==
    \E i \in 1..Len(personObj.assignments) :
        /\ personObj.assignments[i].activityId = actId
        /\ personObj.assignments[i].assignmentCode = "competitor"

\* getCompetitorsFromActId(actId)
getCompetitorsFromActId(w, actId) ==
    LET competing == SelectSeq(w.persons, LAMBDA p : competingInAct(p, actId))
    IN [i \in 1..Len(competing) |-> competing[i].registrantId]

\* getGroupNum(actId)
getGroupNum(w, actId) ==
    LET objs == getGroupActObjs(w)
        actCode == objs[CHOOSE i \in 1..Len(objs) :
                          /\ objs[i].id = actId
                          /\ \A j \in 1..(i - 1) : objs[j].id # actId].activityCode
        actCodeNoAttempt == split(actCode, "-a")[1]
        groupString == split(actCodeNoAttempt, "-g")[2]
    IN Number(groupString)

\* roomHasActId(roomObj) of getGroupRoom
roomHasActId(roomObj, actId) ==
    LET children == Flatten([i \in 1..Len(roomObj.activities) |->
                                roomObj.activities[i].childActivities])
    IN \E i \in 1..Len(children) : children[i].id = actId

\* getGroupRoom(actId)
getGroupRoom(w, actId) ==
    LET rooms == getRoomObjs(w)
    IN rooms[CHOOSE i \in 1..Len(rooms) :
                /\ roomHasActId(rooms[i], actId)
                /\ \A j \in 1..(i - 1) : ~roomHasActId(rooms[j], actId)].name

\* getFormat(eventId, round)
getFormat(w, eventId, round) == getRoundObj(w, eventId, round).format

\* getCutoffCentisec(eventId, round)
getCutoffCentisec(w, eventId, round) ==
    IF eventId = "333mbf" THEN Null
    ELSE LET cutoffObj == getRoundObj(w, eventId, round).cutoff
         IN IF cutoffObj = NullObj THEN Null ELSE cutoffObj.attemptResult

\* getCutoffAttempts(eventId, round)
getCutoffAttempts(w, eventId, round) ==
    IF eventId = "333mbf" THEN Null
    ELSE LET cutoffObj == getRoundObj(w, eventId, round).cutoff
         IN IF cutoffObj = NullObj THEN Null ELSE cutoffObj.numberOfAttempts

\* getTimeLimit(eventId, round)
getTimeLimit(w, eventId, round) ==
    LET roundObj == getRoundObj(w, eventId, round)
    IN IF roundObj.timeLimit = NullObj THEN Null ELSE roundObj.timeLimit.centiseconds

\* getCumulRoundIds(eventId, round)
getCumulRoundIds(w, eventId, round) ==
    LET roundObj == getRoundObj(w, eventId, round)
    IN IF roundObj.timeLimit = NullObj THEN <<>> ELSE roundObj.timeLimit.cumulativeRoundIds

\* the expression getGroupActIds(eventId, i).flatMap(actId =>
\* getCompetitorsFromActId(actId)) of groupsAreAssigned and getNumAdvancingToRound
AssignedCompetitors(w, eventId, round) ==
    LET actIds == getGroupActIds(w, eventId, round)
    IN Flatten([i \in 1..Len(actIds) |-> getCompetitorsFromActId(w, actIds[i])])

\* groupsAreAssigned(eventId, round)
groupsAreAssigned(w, eventId, round) ==
    LET numAssigned == Len(AssignedCompetitors(w, eventId, round))
    IN numAssigned > 0

\* #getPersonObj(registrantId)
getPersonObj(w, registrantId) ==
    w.persons[CHOOSE i \in 1..Len(w.persons) :
                /\ w.persons[i].registrantId = registrantId
                /\ \A j \in 1..(i - 1) : w.persons[j].registrantId # registrantId]

\* isNewCompetitor(registrantId)
isNewCompetitor(w, registrantId) == getPersonObj(w, registrantId).wcaId = "null"

\* getWcaId(registrantId)
getWcaId(w, registrantId) == getPersonObj(w, registrantId).wcaId

\* getPersonName(registrantId)
getPersonName(w, registrantId) == getPersonObj(w, registrantId).name

---------------------------------------------------------------------------
(* IEEE 754 double arithmetic, as far as getNumAdvancingToRound uses it.   *)
(* A double is [m |-> bits, e |-> exponent]: the integer whose binary      *)
(* digits (most significant first, at most 53 of them) are m, times 2^e.   *)
(* Long numbers are also kept as sequences of 12-bit limbs, most           *)
(* significant first, so that no intermediate value exceeds 32 bits.       *)

RECURSIVE NatToLimbs(_)
NatToLimbs(n) ==
    IF n = 0 THEN <<>> ELSE Append(NatToLimbs(n \div 4096), n % 4096)

RECURSIVE LimbsToNat(_)
LimbsToNat(ls) ==
    IF ls = <<>> THEN 0
    ELSE 4096 * LimbsToNat(SubSeq(ls, 1, Len(ls) - 1)) + ls[Len(ls)]

\* the binary digits of a limb sequence
LimbsToBits(ls) ==
    [i \in 1..(12 * Len(ls)) |->
        (ls[((i - 1) \div 12) + 1] \div (2 ^ (11 - ((i - 1) % 12)))) % 2]

\* the value of the 12 binary digits b[i .. i+11]
Limb(b, i) ==
    2048 * b[i] + 1024 * b[i + 1] + 512 * b[i + 2] + 256 * b[i + 3]
    + 128 * b[i + 4] + 64 * b[i + 5] + 32 * b[i + 6] + 16 * b[i + 7]
    + 8 * b[i + 8] + 4 * b[i + 9] + 2 * b[i + 10] + b[i + 11]

\* the limbs of a sequence of binary digits
BitsToLimbs(b) ==
    LET pad == (12 - (Len(b) % 12)) % 12
        padded == [i \in 1..pad |-> 0] \o b
    IN [j \in 1..(Len(padded) \div 12) |-> Limb(padded, 12 * (j - 1) + 1)]

\* the value of a (short) sequence of binary digits
BitsToNat(b) == LimbsToNat(BitsToLimbs(b))

RECURSIVE DivLimbs(_, _, _)
\* long division of (r, ls) by d: the quotient's limbs
DivLimbs(ls, d, r) ==
    IF ls = <<>> THEN <<>>
    ELSE LET cur == r * 4096 + Head(ls)
         IN <<cur \div d>> \o DivLimbs(Tail(ls), d, cur % d)

RECURSIVE DivLimbsRem(_, _, _)
\* long division of (r, ls) by d: the remainder
DivLimbsRem(ls, d, r) ==
    IF ls = <<>> THEN r
    ELSE DivLimbsRem(Tail(ls), d, (r * 4096 + Head(ls)) % d)

RECURSIVE MulLimbs(_, _, _)
\* ls * n + carry
MulLimbs(ls, n, carry) ==
    IF ls = <<>> THEN NatToLimbs(carry)
    ELSE LET t == n * ls[Len(ls)] + carry
         IN Append(MulLimbs(SubSeq(ls, 1, Len(ls) - 1), n, t \div 4096), t % 4096)

\* b without its leading zeros
StripZeros(b) ==
    LET i == FirstIndexIn(b, {1})
    IN IF i = 0 THEN <<>> ELSE SubSeq(b, i, Len(b))

\* b + 1
IncBits(b) ==
    IF \A i \in 1..Len(b) : b[i] = 1
    THEN <<1>> \o [i \in 1..Len(b) |-> 0]
    ELSE [i \in 1..Len(b) |->
            IF \A j \in (i + 1)..Len(b) : b[j] = 1 THEN 1 - b[i] ELSE b[i]]

\* round-to-nearest, ties-to-even, of (bits * 2^exp + a non-zero fraction of
\* the last place when sticky) to a 53-bit significand
RoundToDouble(bits, sticky, exp) ==
    IF Len(bits) <= 53 THEN [m |-> bits, e |-> exp]
    ELSE LET keep == SubSeq(bits, 1, 53)
             guard == bits[54]
             st == sticky \/ \E i \in 55..Len(bits) : bits[i] = 1
             up == guard = 1 /\ (st \/ keep[53] = 1)
             m1 == IF up THEN IncBits(keep) ELSE keep
         IN IF Len(m1) = 54
            THEN [m |-> SubSeq(m1, 1, 53), e |-> exp + (Len(bits) - 53) + 1]
            ELSE [m |-> m1, e |-> exp + (Len(bits) - 53)]

\* the double a / d of JavaScript, for natural numbers a and d > 0
\* (72 binary fraction digits are computed before rounding)
DoubleDiv(a, d) ==
    LET num == NatToLimbs(a) \o <<0, 0, 0, 0, 0, 0>>
        quot == LimbsToBits(DivLimbs(num, d, 0))
    IN RoundToDouble(StripZeros(quot), DivLimbsRem(num, d, 0) # 0, 0 - 72)

\* the double n * x of JavaScript, for a natural number n and a double x
DoubleMulNat(n, x) ==
    LET prod == LimbsToBits(MulLimbs(BitsToLimbs(x.m), n, 0))
    IN RoundToDouble(StripZeros(prod), FALSE, x.e)

\* Math.floor of a non-negative double
MathFloor(x) ==
    IF x.e >= 0 THEN BitsToNat(x.m) * (2 ^ x.e)
    ELSE IF Len(x.m) + x.e <= 0 THEN 0
    ELSE BitsToNat(SubSeq(x.m, 1, Len(x.m) + x.e))

\* Math.floor(numAdvancing * (pct / 100))
FloorPct(numAdvancing, pct) == MathFloor(DoubleMulNat(numAdvancing, DoubleDiv(pct, 100)))

---------------------------------------------------------------------------
(* wcif.js: getNumAdvancingToRound *)

RECURSIVE AdvancingLoop(_, _, _, _)
\* the for loop of getNumAdvancingToRound, from round i down, with the
\* percentages pushed so far: [baseNum, pctAdvancingStack] when it ends
AdvancingLoop(w, eventId, i, pctAdvancingStack) ==
    IF i < 1 THEN [baseNum |-> Null, stack |-> pctAdvancingStack]
    ELSE IF i = 1 \/ groupsAreAssigned(w, eventId, i)
    THEN [baseNum |-> Len(AssignedCompetitors(w, eventId, i)), stack |-> pctAdvancingStack]
    ELSE LET advanceObj == getRoundObj(w, eventId, i - 1).advancementCondition
         IN IF advanceObj.type = "ranking"
            THEN [baseNum |-> advanceObj.level, stack |-> pctAdvancingStack]
            ELSE AdvancingLoop(w, eventId, i - 1, Append(pctAdvancingStack, advanceObj.level))

RECURSIVE PopLoop(_, _)
\* the while loop of getNumAdvancingToRound: pop a percentage, apply it
PopLoop(numAdvancing, pctAdvancingStack) ==
    IF pctAdvancingStack = <<>> THEN numAdvancing
    ELSE PopLoop(FloorPct(numAdvancing, pctAdvancingStack[Len(pctAdvancingStack)]),
                 SubSeq(pctAdvancingStack, 1, Len(pctAdvancingStack) - 1))

\* getNumAdvancingToRound(eventId, round)
getNumAdvancingToRound(w, eventId, round) ==
    LET loop == AdvancingLoop(w, eventId, round, <<>>)
    IN PopLoop(loop.baseNum, loop.stack)

---------------------------------------------------------------------------
(* options.js: option ids *)

\* RoundBlanksOption.genId(eventId, round)
RoundBlanksGenId(eventId, round) == <<"blanks-round-", eventId, "-r", ToString(round)>>

\* RoomOption.genId(room)
RoomGenId(room) ==
    LET roomNoSpaces == replace(room, " ", "-")
    IN <<"room-abbr-">> \o roomNoSpaces

---------------------------------------------------------------------------
(* sc_data.js: the scorecard data deriver *)

\* new CumulRoundInfo(wcif, roundId) for every id of getCumulRoundIds
CumulRoundInfos(w, eventId, round) ==
    LET ids == getCumulRoundIds(w, eventId, round)
    IN [i \in 1..Len(ids) |->
          [eventId |-> split(ids[i], "-r")[1][1],
           eventName |-> eventIdToName(split(ids[i], "-r")[1][1]),
           round |-> Number(split(ids[i], "-r")[2]),
           numRounds |-> getNumRounds(w, split(ids[i], "-r")[1][1])]]

\* SCData.competitorScData(wcif, eventId, round, actId, registrantId).
\* No statement of the source assigns groupRoomAbbr: the field is left out,
\* and reading it (see GroupRoomAbbr) gives undefined.
competitorScData(w, eventId, round, actId, registrantId) ==
    [type |-> "competitor",
     registrantId |-> registrantId,
     newCompetitor |-> isNewCompetitor(w, registrantId),
     wcaId |-> getWcaId(w, registrantId),
     personName |-> getPersonName(w, registrantId),
     compName |-> w.name,
     eventId |-> eventId,
     eventName |-> eventIdToName(eventId),
     round |-> round,
     numRounds |-> getNumRounds(w, eventId),
     format |-> getFormat(w, eventId, round),
     cutoffCentisec |-> getCutoffCentisec(w, eventId, round),
     cutoffAttempts |-> getCutoffAttempts(w, eventId, round),
     timeLimit |-> getTimeLimit(w, eventId, round),
     cumulRoundInfos |-> CumulRoundInfos(w, eventId, round),
     groupNum |-> getGroupNum(w, actId),
     groupRoom |-> getGroupRoom(w, actId),
     numRooms |-> getNumRooms(w)]

\* SCData.roundBlankScData(wcif, eventId, round)
roundBlankScData(w, eventId, round) ==
    [type |-> "roundBlank",
     registrantId |-> Null,
     newCompetitor |-> FALSE,
     wcaId |-> "null",
     personName |-> NullName,
     compName |-> w.name,
     eventId |-> eventId,
     eventName |-> eventIdToName(eventId),
     round |-> round,
     numRounds |-> getNumRounds(w, eventId),
     format |-> getFormat(w, eventId, round),
     cutoffCentisec |-> getCutoffCentisec(w, eventId, round),
     cutoffAttempts |-> getCutoffAttempts(w, eventId, round),
     timeLimit |-> getTimeLimit(w, eventId, round),
     cumulRoundInfos |-> CumulRoundInfos(w, eventId, round),
     groupNum |-> Null,
     groupRoom |-> NullName,
     numRooms |-> Null]

\* getScDataForGroup(wcif, eventId, round, actId)
getScDataForGroup(w, eventId, round, actId) ==
    LET ids == getCompetitorsFromActId(w, actId)
    IN [i \in 1..Len(ids) |-> competitorScData(w, eventId, round, actId, ids[i])]

\* a filler that is the remainder itself
numFillerBlanksRemainder(w, eventId, round) ==
    IF groupsAreAssigned(w, eventId, round)
    THEN getNumAdvancingToRound(w, eventId, round) % scPerPage
    ELSE 0

\* numFillerBlanks of getScDataForRoundBlanks
numFillerBlanks(w, eventId, round) ==
    IF groupsAreAssigned(w, eventId, round)
    THEN LET numCompetitors == getNumAdvancingToRound(w, eventId, round)
         IN scPerPage - (numCompetitors % scPerPage)
    ELSE 0

\* option.value * scPerPage, for an option value kept in quarter pages
\* (null * scPerPage is 0)
ValueTimesScPerPage(value) ==
    IF value = Null THEN 0 ELSE (value * scPerPage) \div 4

\* getScDataForRoundBlanks(wcif, optionsObj, eventId, round)
getScDataForRoundBlanks(w, opts, eventId, round) ==
    LET id == RoundBlanksGenId(eventId, round)
        option == opts[id]
        numBlanks == numFillerBlanks(w, eventId, round) + ValueTimesScPerPage(option.value)
    IN [i \in 1..numBlanks |-> roundBlankScData(w, eventId, round)]

\* the blanks of the round put before its competitors
getScDataForRoundBlanksFirst(w, opts, eventId, round) ==
    LET actIds == getGroupActIds(w, eventId, round)
        scDataArr == Flatten([i \in 1..Len(actIds) |->
                                getScDataForGroup(w, eventId, round, actIds[i])])
    IN getScDataForRoundBlanks(w, opts, eventId, round) \o scDataArr

\* getScDataForRound(wcif, optionsObj, eventId, round)
getScDataForRound(w, opts, eventId, round) ==
    LET actIds == getGroupActIds(w, eventId, round)
        scDataArr == Flatten([i \in 1..Len(actIds) |->
                                getScDataForGroup(w, eventId, round, actIds[i])])
    IN scDataArr \o getScDataForRoundBlanks(w, opts, eventId, round)

\* getScDataForEvent(wcif, optionsObj, eventId)
getScDataForEvent(w, opts, eventId) ==
    LET numRounds == getNumRounds(w, eventId)
    IN Flatten([round \in 1..numRounds |-> getScDataForRound(w, opts, eventId, round)])

\* reading scData.groupRoomAbbr in #setGroupData
GroupRoomAbbr(scData) ==
    IF "groupRoomAbbr" \in DOMAIN scData THEN scData.groupRoomAbbr ELSE Undefined

\* SCPDFData.#setGroupData: the template literal `${groupRoomAbbr}${groupNum}`
setGroupData(scData) == GroupRoomAbbr(scData) \o <<ToString(scData.groupNum)>>

---------------------------------------------------------------------------
(* options.js: the option tabs *)

\* String.prototype.toUpperCase on one character
toUpperCase(c) ==
    CASE c = "b" -> "B"
      [] c = "r" -> "R"
      [] c = "a" -> "A"
      [] OTHER -> c

\* new Option(inputType, id, defaultValue)
Option(inputType, id, defaultValue) ==
    [inputType |-> inputType, id |-> id, defaultValue |-> defaultValue,
     value |-> defaultValue]

\* getBlankPagesForRound(wcif, eventId, round), in quarter pages:
\* (numCompetitors / scPerPage) + 1 pages are 4 * numCompetitors / scPerPage + 4
\* quarter pages
getBlankPagesForRound(w, eventId, round) ==
    IF groupsAreAssigned(w, eventId, round)
    THEN 4
    ELSE LET numCompetitors == getNumAdvancingToRound(w, eventId, round)
         IN ((4 * numCompetitors) \div scPerPage) + 4

\* the options of a loop `round < numRounds` in getBlankPagesPerRoundByEvent
BlanksOptionsExclusive(w) ==
    LET eventIds == getEventIds(w)
    IN Flatten([e \in 1..Len(eventIds) |->
          [round \in 1..(getNumRounds(w, eventIds[e]) - 1) |->
              Option("number", RoundBlanksGenId(eventIds[e], round),
                     getBlankPagesForRound(w, eventIds[e], round))]])

\* BlanksOptionsTab: #finishDiv over getBlankPagesPerRound(wcif), one
\* RoundBlanksOption per event of getEventIds() and round 1..numRounds
BlanksOptions(w) ==
    LET eventIds == getEventIds(w)
    IN Flatten([e \in 1..Len(eventIds) |->
          [round \in 1..getNumRounds(w, eventIds[e]) |->
              Option("number", RoundBlanksGenId(eventIds[e], round),
                     getBlankPagesForRound(w, eventIds[e], round))]])

\* RoomOptionsTab: #finishDiv, one RoomOption per room name
RoomOptions(w) ==
    LET rooms == getRoomNames(w)
    IN [i \in 1..Len(rooms) |->
          Option("text", RoomGenId(rooms[i]),
                 IF Len(rooms) = 1 THEN <<>> ELSE <<toUpperCase(rooms[i][1])>>)]

\* optTabsCreate(wcif): the Help, Rooms and Blank scorecards tabs
optTabsCreate(w) ==
    <<[tabName |-> "Help", options |-> <<>>],
      [tabName |-> "Rooms", options |-> RoomOptions(w)],
      [tabName |-> "Blank scorecards", options |-> BlanksOptions(w)]>>

\* optionsTabArr.flatMap(x => x.options)
AllOptions(tabs) == Flatten([i \in 1..Len(tabs) |-> tabs[i].options])

---------------------------------------------------------------------------
(* sc_data.js (sc_pdf part) and main.js: generation *)

\* null where a text is expected
NullText == "null"

\* null in attemptsPostCutoff, a field whose numbers may be negative
NullAttempts == -100

\* the character U+2265 (greater-than or equal to) of 'DNF if ... '
GeqSign == "\\u2265"

\* #formatToAttempts[format]
formatToAttempts(format) ==
    CASE format = "a" -> 5
      [] format = "m" -> 3
      [] format = "1" -> 1
      [] format = "2" -> 2
      [] format = "3" -> 3
      [] format = "5" -> 5

\* a table that gives 'm' the nominal count of 'a'
formatToCutoffAttemptsOfAverage(format) ==
    CASE format \in {"a", "m"} -> 2
      [] format \in {"1", "2", "3", "5"} -> Null

\* #formatToCutoffAttempts[format]
formatToCutoffAttempts(format) ==
    CASE format = "a" -> 2
      [] format = "m" -> 1
      [] format \in {"1", "2", "3", "5"} -> Null

\* a split whose translated part keeps the closing parenthesis
setNameDataKeepsParen(scDataName) ==
    LET name == trim(scDataName)
        openPar == FirstIndexIn(name, {"("})
    IN IF openPar = 0
       THEN [personNameRoman |-> name, personNameTrans |-> NullName]
       ELSE [personNameRoman |-> trim(SubSeq(name, 1, openPar - 1)),
             personNameTrans |-> SubSeq(name, openPar + 1, Len(name))]

\* #setNameData(scDataName), on a name of one-character tokens:
\* slice(0, openParInd).trim() and slice(openParInd + 1, -1) of the trimmed name
setNameData(scDataName) ==
    LET name == trim(scDataName)
        openPar == FirstIndexIn(name, {"("})
    IN IF openPar = 0
       THEN [personNameRoman |-> name, personNameTrans |-> NullName]
       ELSE [personNameRoman |-> trim(SubSeq(name, 1, openPar - 1)),
             personNameTrans |-> SubSeq(name, openPar + 1, Len(name) - 1)]

\* #getEventAndRoundText(eventName, round, numRounds)
getEventAndRoundText(eventName, round, numRounds) ==
    LET roundText == IF round = numRounds THEN "Final" ELSE "Round " \o ToString(round)
    IN Str(eventName) \o " " \o roundText

\* Number.prototype.toFixed(2) of a value given in hundredths
toFixed2(value100) ==
    ToString(value100 \div 100) \o "." \o ToString((value100 % 100) \div 10)
        \o ToString(value100 % 10)

\* a part whose unit is always in the plural
getTimeTextPartPlural(value100, unit) ==
    IF value100 = 0 THEN ""
    ELSE LET valueText == IF value100 % 100 = 0 THEN ToString(value100 \div 100)
                          ELSE ToString(value100 \div 100) \o "."
                                  \o ToString((value100 % 100) \div 10)
                                  \o ToString(value100 % 10)
         IN valueText \o " " \o unit \o "s"

\* #getTimeTextPart(value, unit); the value is given in hundredths, which
\* is exact for the hours, the minutes and the seconds of a whole number of
\* centiseconds
getTimeTextPart(value100, unit) ==
    IF value100 = 0 THEN ""
    ELSE LET valueText == IF value100 % 100 = 0 THEN ToString(value100 \div 100)
                          ELSE toFixed2(value100)
             unitText == IF value100 = 100 THEN unit ELSE unit \o "s"
         IN valueText \o " " \o unitText

\* #getTimeText(totalCentisec); null counts as 0 in the divisions
getTimeText(totalCentisec) ==
    LET c == IF totalCentisec = Null THEN 0 ELSE totalCentisec
        hours == c \div (100 * 60 * 60)
        minutes == (c \div (100 * 60)) % 60
        seconds100 == c % (100 * 60)
        timeParts == <<getTimeTextPart(100 * hours, "hour"),
                       getTimeTextPart(100 * minutes, "minute"),
                       getTimeTextPart(seconds100, "second")>>
    IN join(SelectSeq(timeParts, LAMBDA x : x # ""), " ")

\* #getCutoffText throws: attempts is neither 1 nor 2
getCutoffTextThrows(attempts) == attempts \notin {1, 2}

\* #getCutoffText(attempts, totalCentisec), where it returns
getCutoffText(attempts, totalCentisec) ==
    LET attemptsText == IF attempts = 1 THEN "1" ELSE "1 or 2"
    IN "Continue if " \o attemptsText \o " < " \o getTimeText(totalCentisec)

\* a #setCutoffData that never throws
setCutoffDataNeverThrows(scData) == FALSE

\* #setCutoffData(scData) throws
setCutoffDataThrows(scData) ==
    /\ scData.cutoffCentisec # Null
    /\ getCutoffTextThrows(scData.cutoffAttempts)

\* a #setCutoffData whose post-cutoff count is the format's attempt count
setCutoffDataPostIsTotal(scData) ==
    [attemptsPreCutoff |->
        IF scData.cutoffCentisec # Null THEN scData.cutoffAttempts
        ELSE IF scData.format \in {"a", "m"}
        THEN (IF scData.format = "a" THEN 2 ELSE 1)
        ELSE formatToAttempts(scData.format),
     attemptsPostCutoff |->
        IF scData.cutoffCentisec = Null /\ scData.format \notin {"a", "m"}
        THEN NullAttempts ELSE formatToAttempts(scData.format),
     cutoffText |->
        IF scData.cutoffCentisec # Null
        THEN "Continue if " \o (IF scData.cutoffAttempts = 1 THEN "1" ELSE "1 or 2")
                \o " < " \o getTimeText(scData.cutoffCentisec)
        ELSE IF scData.format \in {"a", "m"} THEN "N/A" ELSE NullText]

\* #setCutoffData(scData), where it returns
setCutoffData(scData) ==
    LET totalAttempts == formatToAttempts(scData.format)
    IN IF scData.cutoffCentisec # Null
       THEN [attemptsPreCutoff |-> scData.cutoffAttempts,
             attemptsPostCutoff |-> totalAttempts - scData.cutoffAttempts,
             cutoffText |-> getCutoffText(scData.cutoffAttempts, scData.cutoffCentisec)]
       ELSE IF formatToCutoffAttempts(scData.format) # Null
       THEN [attemptsPreCutoff |-> formatToCutoffAttempts(scData.format),
             attemptsPostCutoff |-> totalAttempts - formatToCutoffAttempts(scData.format),
             cutoffText |-> "N/A"]
       ELSE [attemptsPreCutoff |-> totalAttempts,
             attemptsPostCutoff |-> NullAttempts,
             cutoffText |-> NullText]

\* a cumulative text that lists the rounds whatever their number
getCumulRoundTextListsAll(cumulRoundInfos) ==
    IF Len(cumulRoundInfos) < 2 THEN ""
    ELSE " for " \o join([i \in 1..Len(cumulRoundInfos) |->
                             getEventAndRoundText(cumulRoundInfos[i].eventName,
                                                  cumulRoundInfos[i].round,
                                                  cumulRoundInfos[i].numRounds)],
                          " and ")

\* #getCumulRoundText(cumulRoundInfos)
getCumulRoundText(cumulRoundInfos) ==
    IF Len(cumulRoundInfos) < 2 THEN ""
    ELSE LET textArr == [i \in 1..Len(cumulRoundInfos) |->
                           getEventAndRoundText(cumulRoundInfos[i].eventName,
                                                cumulRoundInfos[i].round,
                                                cumulRoundInfos[i].numRounds)]
         IN IF Len(cumulRoundInfos) = 2
            THEN " for " \o join(textArr, " and ")
            ELSE ", shared by " \o ToString(Len(cumulRoundInfos)) \o " events"

\* #setTimeLimitData(scData)
setTimeLimitData(scData) ==
    IF scData.eventId = "333mbf"
    THEN [timeLimitStartText |-> "Time limit per solve",
          timeLimitEndText |-> "10 minutes per cube, up to 1 hour"]
    ELSE IF Len(scData.cumulRoundInfos) = 0
    THEN [timeLimitStartText |-> "Time limit per solve",
          timeLimitEndText |-> "DNF if " \o GeqSign \o " " \o getTimeText(scData.timeLimit)]
    ELSE [timeLimitStartText |-> "Cumulative time limit",
          timeLimitEndText |-> getTimeText(scData.timeLimit)
                                  \o getCumulRoundText(scData.cumulRoundInfos)]

\* #setEventData(scData), where it returns
setEventData(scData) ==
    [eventAndRoundText |-> getEventAndRoundText(scData.eventName, scData.round,
                                                scData.numRounds)]
    @@ setCutoffData(scData) @@ setTimeLimitData(scData)

\* #setPersonData(scData)
setPersonData(scData) ==
    [registrantId |-> ToString(scData.registrantId),
     wcaId |-> IF scData.newCompetitor THEN "New Competitor" ELSE scData.wcaId]
    @@ setNameData(scData.personName)

\* SCPDFData.fromScData(scData) throws
fromScDataThrows(scData) == setCutoffDataThrows(scData)

\* SCPDFData.fromScData(scData), where it returns
fromScData(scData) ==
    [type |-> scData.type, compName |-> scData.compName]
    @@ (IF scData.type = "competitor"
        THEN setPersonData(scData) @@ setEventData(scData)
                @@ [group |-> setGroupData(scData)]
        ELSE setEventData(scData))

\* getScPdfDataForEvent(wcif, optionsObj, eventId)
getScPdfDataForEvent(w, opts, eventId) ==
    LET scDataArr == getScDataForEvent(w, opts, eventId)
    IN [i \in 1..Len(scDataArr) |-> fromScData(scDataArr[i])]

\* getScPdfDataForEvent(wcif, optionsObj, eventId) throws: fromScData throws
\* on a record of the event
getScPdfDataForEventThrows(w, opts, eventId) ==
    LET scDataArr == getScDataForEvent(w, opts, eventId)
    IN \E i \in 1..Len(scDataArr) : fromScDataThrows(scDataArr[i])

\* doc.internal.pageSize.getWidth() and getHeight() of a jsPDF document of
\* format 'letter' in unit 'pt'
pageWidth == 612
pageHeight == 792

\* drawCutLines(doc): the four dashed lines, each <<x1, y1, x2, y2>>
drawCutLines ==
    LET xCenter == pageWidth \div 2
        yCenter == pageHeight \div 2
    IN <<<<xCenter, yCenter, xCenter, 0>>,
         <<xCenter, yCenter, xCenter, pageHeight>>,
         <<xCenter, yCenter, 0, yCenter>>,
         <<xCenter, yCenter, pageWidth, yCenter>>>>

\* the scorecard positions of a grid filled column by column
coordsColumnMajor ==
    <<<<0, 0>>, <<0, pageHeight \div 2>>,
      <<pageWidth \div 2, 0>>, <<pageWidth \div 2, pageHeight \div 2>>>>

\* const coords of draw4Scorecards: the (x, y) of a scorecard position in
\* the 2x2 grid
coords ==
    <<<<0, 0>>, <<pageWidth \div 2, 0>>,
      <<0, pageHeight \div 2>>, <<pageWidth \div 2, pageHeight \div 2>>>>

\* pdfAddAttempts(doc, x, y, startAttempt, endAttempt): the attempt numbers
\* of the rows of the table body
pdfAddAttempts(startAttempt, endAttempt) ==
    [j \in 1..(endAttempt - startAttempt + 1) |-> startAttempt + j - 1]

\* pdfAddPreCutoffAttempts(doc, scPdfData, x, y): the rows under the header
pdfAddPreCutoffAttempts(scPdfData) == pdfAddAttempts(1, scPdfData.attemptsPreCutoff)

\* pdfAddPostCutoffAttempts(doc, scPdfData, x, y): the rows of the table
pdfAddPostCutoffAttempts(scPdfData) ==
    IF scPdfData.attemptsPostCutoff = NullAttempts THEN <<>>
    ELSE pdfAddAttempts(scPdfData.attemptsPreCutoff + 1,
                        scPdfData.attemptsPreCutoff + scPdfData.attemptsPostCutoff)

\* draw4Scorecards(doc, scPdfSubset): the scorecards drawn on the page, the
\* corner each is drawn at and the numbered attempt rows of its pre-cutoff
\* and post-cutoff tables, with the warning for fewer than 4 and the error
\* for more than 4
draw4Scorecards(scPdfSubset) ==
    [drawn |-> IF Len(scPdfSubset) > 4 THEN <<>> ELSE scPdfSubset,
     at |-> IF Len(scPdfSubset) > 4 THEN <<>>
            ELSE [i \in 1..Len(scPdfSubset) |-> coords[i]],
     attemptRows |->
        IF Len(scPdfSubset) > 4 THEN <<>>
        ELSE [i \in 1..Len(scPdfSubset) |->
                 [pre |-> pdfAddPreCutoffAttempts(scPdfSubset[i]),
                  post |-> pdfAddPostCutoffAttempts(scPdfSubset[i])]],
     warning |-> Len(scPdfSubset) < 4,
     thrown |-> Len(scPdfSubset) > 4]

\* a slice that takes the first record of the next chunk too
slice4Overlapping(scPdfArr, i) ==
    SubSeq(scPdfArr, i * 4 + 1,
           IF (i + 1) * 4 + 1 < Len(scPdfArr) THEN (i + 1) * 4 + 1 ELSE Len(scPdfArr))

\* scPdfArr.slice(i * 4, (i + 1) * 4)
slice4(scPdfArr, i) ==
    SubSeq(scPdfArr, i * 4 + 1,
           IF (i + 1) * 4 < Len(scPdfArr) THEN (i + 1) * 4 ELSE Len(scPdfArr))

\* genScPdfEvent(wcif, optionsObj, eventId): the pages the document has
\* before doc.save.  new jsPDF makes the first page and the first loop adds
\* a page for every i < length / 4 - 1.
addedPages(length) ==
    1 + Cardinality({i \in 0..length : 4 * i < length - 4})

\* genScPdfEvent(wcif, optionsObj, eventId): the second loop sets page
\* i + 1, draws the cut lines and draws the chunk of every i < length / 4
drawnPages(scPdfArr) ==
    [p \in 1..Cardinality({i \in 0..Len(scPdfArr) : 4 * i < Len(scPdfArr)}) |->
        [page |-> (p - 1) + 1, cutLines |-> drawCutLines]
           @@ draw4Scorecards(slice4(scPdfArr, p - 1))]

\* genScPdfEvent(wcif, optionsObj, eventId) after getScPdfDataForEvent
\* returned scPdfArr (or threw, formatThrown): the document made for the
\* event, its file name, and whether the function threw before doc.save
jsPDFDoc(compId, eventId, scDataArr, scPdfArr, formatThrown) ==
    [eventId |-> eventId,
     scData |-> scDataArr,
     scPdf |-> scPdfArr,
     numPages |-> addedPages(Len(scPdfArr)),
     pages |-> drawnPages(scPdfArr),
     fileName |-> Str(<<compId, "_">>
                      \o replaceAll(eventIdToName(eventId), " ", "_")
                      \o <<".pdf">>),
     thrown |-> \/ formatThrown
                \/ \E p \in DOMAIN drawnPages(scPdfArr) :
                      drawnPages(scPdfArr)[p].thrown]

\* genScPdfEvent(wcif, optionsObj, eventId)
genScPdfEvent(w, opts, eventId) ==
    jsPDFDoc(w.compId, eventId,
             getScDataForEvent(w, opts, eventId),
             getScPdfDataForEvent(w, opts, eventId),
             getScPdfDataForEventThrows(w, opts, eventId))

\* the loop of genScPdfsFromWcif over the documents of the events: the
\* documents saved are those before the first event whose generation throws
savedBeforeThrow(docs) ==
    LET throwing == {i \in 1..Len(docs) : docs[i].thrown}
        last == IF throwing = {} THEN Len(docs)
                ELSE (CHOOSE i \in throwing : \A j \in throwing : i <= j) - 1
    IN SubSeq(docs, 1, last)

\* genScPdfsFromWcif(wcif, optionsObj): the documents saved, one per event
\* of getEventIds() in order, up to the first event whose generation throws
genScPdfsFromWcif(w, opts) ==
    savedBeforeThrow([i \in 1..Len(getEventIds(w)) |->
                         genScPdfEvent(w, opts, getEventIds(w)[i])])

\* the optionsObj built by optionsToPdf from the options and the form data
BuildOptionsObj(tabs, formData) ==
    LET options == AllOptions(tabs)
    IN [id \in {options[i].id : i \in 1..Len(options)} |->
          LET k == CHOOSE i \in 1..Len(options) :
                      /\ options[i].id = id
                      /\ \A j \in (i + 1)..Len(options) : options[j].id # id
          IN [options[k] EXCEPT !.value = formData[id]]]

---------------------------------------------------------------------------
(* The competition documents (WCIF) handed to the WCIF constructor *)

Room1 == <<"b", "l", "u", "e">>
Room2 == <<"r", "e", "d", " ", "2">>

\* an activity code `${eventId}-r${round}-g${group}`
GroupCode(eventId, round, group) ==
    <<eventId, "-r", ToString(round), "-g", ToString(group)>>

\* a top-level round activity holding its group activities
RoundAct(id, eventId, round, childActivities) ==
    [id |-> id, activityCode |-> RoundId(eventId, round),
     childActivities |-> childActivities]

GroupAct(id, eventId, round, group) ==
    [id |-> id, activityCode |-> GroupCode(eventId, round, group)]

\* the group activity ids of the documents: round 1 of "333" has group 2 in
\* the first room and group 1 in the second one, a later round one group
ActIdOf(round, group) ==
    IF round = 1 THEN (IF group = 2 THEN 112 ELSE 211) ELSE 100 + 10 * round + 1

Act333fm == 181
Act222 == 291

\* the rounds of an event: every round but the last one has an advancement
\* condition
Rounds(eventId, numRounds, conds) ==
    [r \in 1..numRounds |->
        [id |-> RoundId(eventId, r),
         format |-> "a",
         cutoff |-> NullObj,
         timeLimit |-> [centiseconds |-> 60000, cumulativeRoundIds |-> <<>>],
         advancementCondition |-> IF r < numRounds THEN conds[r] ELSE NullObj]]

\* the schedule: room 1 lists "333" round 1 (group 2), "333fm" and the later
\* rounds of "333" that have a group; room 2 lists "222" and "333" round 1
\* (group 1)
Schedule(numRounds, later) ==
    LET laterActs == Flatten([i \in 1..(numRounds - 1) |->
            IF later[i + 1] > 0
            THEN <<RoundAct(10 + i + 1, "333", i + 1,
                            <<GroupAct(ActIdOf(i + 1, 1), "333", i + 1, 1)>>)>>
            ELSE <<RoundAct(10 + i + 1, "333", i + 1, <<>>)>>])
    IN [venues |-> <<
         [rooms |-> <<
            [name |-> Room1,
             activities |->
                <<RoundAct(11, "333", 1, <<GroupAct(ActIdOf(1, 2), "333", 1, 2)>>),
                  RoundAct(18, "333fm", 1, <<GroupAct(Act333fm, "333fm", 1, 1)>>)>>
                \o laterActs],
            [name |-> Room2,
             activities |->
                <<RoundAct(29, "222", 1, <<GroupAct(Act222, "222", 1, 1)>>),
                  RoundAct(21, "333", 1, <<GroupAct(ActIdOf(1, 1), "333", 1, 1)>>)>>]
         >>] >>]

\* the assignments of person p: competitor in the round 1 groups of first[p],
\* judge in the other round 1 group when p + group is even, competitor in the
\* group of a later round r when p <= later[r]; person 1 competes in "333fm"
\* and in "222"
Assignments(p, numRounds, first, later) ==
    Flatten([g \in 1..2 |->
        IF g \in first[p]
        THEN <<[activityId |-> ActIdOf(1, g), assignmentCode |-> "competitor"]>>
        ELSE IF (p + g) % 2 = 0
        THEN <<[activityId |-> ActIdOf(1, g), assignmentCode |-> "staff-judge"]>>
        ELSE <<>>])
    \o Flatten([i \in 1..(numRounds - 1) |->
        IF p <= later[i + 1]
        THEN <<[activityId |-> ActIdOf(i + 1, 1), assignmentCode |-> "competitor"]>>
        ELSE <<>>])
    \o (IF p = 1
        THEN <<[activityId |-> Act333fm, assignmentCode |-> "competitor"],
               [activityId |-> Act222, assignmentCode |-> "competitor"]>>
        ELSE <<>>)

\* the persons, listed by descending registrant id; person 1 has no WCA id
Persons(numPersons, numRounds, first, later) ==
    [i \in 1..numPersons |->
        LET p == numPersons + 1 - i
        IN [registrantId |-> p,
            name |-> <<"P", ToString(p)>>,
            wcaId |-> IF p = 1 THEN "null" ELSE "2020PERS0" \o ToString(p),
            registration |-> [status |-> "accepted", isCompeting |-> TRUE,
                              eventIds |-> <<"333", "333fm", "222">>],
            assignments |-> Assignments(p, numRounds, first, later)]]

\* a document with numPersons persons and numRounds rounds of "333", whose
\* round r < numRounds has the advancement condition conds[r]
DocWith(numPersons, numRounds, first, later, conds) ==
    [compId |-> "Open2026",
     name |-> <<"Open">>,
     events |-> <<
        [id |-> "333",
         rounds |-> Rounds("333", numRounds, conds)],
        [id |-> "333fm",
         rounds |-> Rounds("333fm", 1, <<>>)],
        [id |-> "222",
         rounds |-> Rounds("222", 1, <<>>)] >>,
     schedule |-> Schedule(numRounds, later),
     persons |-> Persons(numPersons, numRounds, first, later)]

\* a document whose rounds of "333" let the best 75 percent advance
Doc(numPersons, numRounds, first, later) ==
    DocWith(numPersons, numRounds, first, later,
            [r \in 1..numRounds |-> [type |-> "percent", level |-> 75]])

\* the round 1 groups of the persons when the first `both` of them compete in
\* both groups, the next `one` in group 1 only, the next `two` in group 2 only
\* and the others in none
First(numPersons, both, one, two) ==
    [p \in 1..numPersons |->
        IF p <= both THEN {1, 2}
        ELSE IF p <= both + one THEN {1}
        ELSE IF p <= both + one + two THEN {2}
        ELSE {}]

---------------------------------------------------------------------------
(* main.js: the options form and the download handler *)

Digits == {"0", "1", "2", "3", "4", "5", "6", "7", "8", "9"}

\* the value of an <input type="number"> whose default value is v: a number
\* (the default of a blanks option) is kept, a text that is not a number is
\* sanitised to the empty string
Sanitize(name, v) ==
    IF name[1] = "blanks-round-" THEN v
    ELSE IF v # <<>> /\ \A i \in 1..Len(v) : v[i] \in Digits THEN v
    ELSE <<>>

\* compIdToOptions, the loop over the tabs' options: one input per option,
\* named option.getId(), of type number
InputsFor(tabs) ==
    LET options == AllOptions(tabs)
    IN [i \in 1..Len(options) |->
          [name |-> options[i].id,
           defaultValue |-> options[i].defaultValue,
           value |-> Sanitize(options[i].id, options[i].defaultValue)]]

\* FormData.get(id): the value of the first input of that name, or null
FormDataGet(inputs, id) ==
    IF \E i \in 1..Len(inputs) : inputs[i].name = id
    THEN inputs[CHOOSE i \in 1..Len(inputs) :
                    /\ inputs[i].name = id
                    /\ \A j \in 1..(i - 1) : inputs[j].name # id].value
    ELSE IF id[1] = "blanks-round-" THEN Null ELSE NullName

\* new FormData(optionsForm), over the ids asked of it
FormData(inputs, tabs) ==
    LET options == AllOptions(tabs)
    IN [id \in {options[i].id : i \in 1..Len(options)} |-> FormDataGet(inputs, id)]

\* optionsToPdf: option.value = formData.get(id) on the options of the tabs
SetValues(tabs, formData) ==
    [t \in 1..Len(tabs) |->
        [tabs[t] EXCEPT !.options =
            [i \in 1..Len(tabs[t].options) |->
                [tabs[t].options[i] EXCEPT !.value = formData[tabs[t].options[i].id]]]]]

\* what the user can type into the input: whole pages for a blanks input,
\* a digit for a room abbreviation
UserValues(input) ==
    IF input.name[1] = "blanks-round-"
    THEN {4 * n : n \in 0..MaxBlankPages}
    ELSE {<<"7">>}

\* the inputs after the user has changed at most one of them; an input once
\* changed is left as it is
Edits(inputs) ==
    LET fresh == [i \in 1..Len(inputs) |->
                    [inputs[i] EXCEPT !.value = Sanitize(inputs[i].name, inputs[i].defaultValue)]]
    IN IF inputs # fresh THEN {inputs}
       ELSE {fresh} \cup
            {[fresh EXCEPT ![k].value = v] : <<k, v>> \in
                UNION {{<<i, u>> : u \in UserValues(fresh[i])} : i \in 1..Len(fresh)}}

\* optionsToPdf(event), after the user has edited the form
optionsToPdf ==
    /\ ~optionsFormHidden
    /\ wcif # NullObj
    /\ optionsTabArr # NullObj
    /\ \E edited \in Edits(optionsFormInputs) :
          LET formData == FormData(edited, optionsTabArr)
          IN /\ optionsFormInputs' = edited
             /\ optionsObj' = BuildOptionsObj(optionsTabArr, formData)
             /\ optionsTabArr' = SetValues(optionsTabArr, formData)
             /\ saved' = genScPdfsFromWcif(wcif, optionsObj')
    /\ UNCHANGED <<pureVars, wcif, compIdFormHidden, optionsFormHidden, pending,
                   formError, numSubmits>>

---------------------------------------------------------------------------
(* Specification of generation: a competition has been loaded, the user
   edits the options and downloads *)

\* the documents: no more persons compete in a round than in the round
\* before it
Init ==
    /\ wcif \in
          UNION {{Doc(MaxPersons, numRounds, First(MaxPersons, c[1], c[2], c[3]), later) :
                      later \in {l \in [2..numRounds -> 0..MaxPersons] :
                                    \A r \in 2..numRounds :
                                       l[r] <= (IF r = 2 THEN c[1] + c[2] + c[3]
                                                ELSE l[r - 1])}} :
                 <<numRounds, c>> \in (1..MaxRounds) \X
                    {c \in (0..MaxPersons) \X (0..MaxPersons) \X (0..MaxPersons) :
                        c[1] + c[2] + c[3] <= MaxPersons}}
    /\ optionsTabArr = optTabsCreate(wcif)
    /\ optionsFormInputs = InputsFor(optionsTabArr)
    /\ optionsObj = NullObj
    /\ saved = <<>>
    /\ advCall = NullObj
    /\ nlCall = NullObj
    /\ idCall = NullObj
    /\ compIdFormHidden = TRUE
    /\ optionsFormHidden = FALSE
    /\ pending = {}
    /\ formError = ""
    /\ numSubmits = 1

Next == optionsToPdf

Spec == Init /\ [][Next]_vars

---------------------------------------------------------------------------
(* Properties of the generated scorecard data *)

\* the records of one type that a saved document holds for a round
RecordsOf(d, round, type) ==
    SelectSeq(d.scData, LAMBDA x : x.round = round /\ x.type = type)

NumCompetitorRecords(d, round) == Len(RecordsOf(d, round, "competitor"))
NumBlankRecords(d, round) == Len(RecordsOf(d, round, "roundBlank"))

\* the value, in quarter pages, of the round-blanks option of the last run
BlanksValue(eventId, round) == optionsObj[RoundBlanksGenId(eventId, round)].value

\* the (document, round) pairs of the saved documents
SavedRounds ==
    {<<i, r>> \in (1..Len(saved)) \X (1..MaxRounds) :
        r <= getNumRounds(wcif, saved[i].eventId)}

\* C1: for every (event, round) whose round-blanks option value is a
\* non-negative integer N, exactly filler + 4 * N RoundBlank records are
\* emitted, where filler is 0 when no groups are assigned and otherwise
\* 4 - (assigned competitor count mod 4), taken as 0 when the count is already
\* a multiple of 4, so that filler is in 0..3.
C1_BlanksAreFillerPlusPages ==
    \A ir \in SavedRounds :
        LET d == saved[ir[1]]
            round == ir[2]
            value == BlanksValue(d.eventId, round)
            count == NumCompetitorRecords(d, round)
            filler == IF groupsAreAssigned(wcif, d.eventId, round)
                      THEN (4 - (count % 4)) % 4
                      ELSE 0
        IN value % 4 = 0 =>
              /\ filler \in 0..3
              /\ NumBlankRecords(d, round) = filler + value

\* the run the C1 failure shows on: a round with four competitors, one per
\* group assignment, and no extra blank page
C1_FullPageSaved ==
    \E ir \in SavedRounds :
        LET d == saved[ir[1]]
        IN /\ groupsAreAssigned(wcif, d.eventId, ir[2])
           /\ NumCompetitorRecords(d, ir[2]) = 4
           /\ Cardinality({RecordsOf(d, ir[2], "competitor")[i].registrantId :
                              i \in 1..4}) = 4
           /\ BlanksValue(d.eventId, ir[2]) = 0
           /\ NumBlankRecords(d, ir[2]) = 4

\* C2: for every round with groups assigned and round-blanks option value 0,
\* the number of RoundBlank records is a multiple of 4 if and only if the
\* number of Competitor records of the round is a multiple of 4; and when it
\* is not, competitors plus blanks is the next multiple of 4 above the number
\* of competitors.
C2_FillerReachesNextMultiple ==
    \A ir \in SavedRounds :
        LET d == saved[ir[1]]
            round == ir[2]
            count == NumCompetitorRecords(d, round)
            blanks == NumBlankRecords(d, round)
        IN (groupsAreAssigned(wcif, d.eventId, round) /\ BlanksValue(d.eventId, round) = 0)
           => /\ (blanks % 4 = 0) <=> (count % 4 = 0)
              /\ count % 4 # 0 => count + blanks = 4 * ((count \div 4) + 1)

\* a saved round with groups assigned, option value 0 and three competitors,
\* filled up by one blank
C2_Witness ==
    \E ir \in SavedRounds :
        LET d == saved[ir[1]]
        IN /\ groupsAreAssigned(wcif, d.eventId, ir[2])
           /\ BlanksValue(d.eventId, ir[2]) = 0
           /\ NumCompetitorRecords(d, ir[2]) = 3
           /\ NumBlankRecords(d, ir[2]) = 1

\* what a Competitor record says of its group and person
RecordKey(rec) == <<rec.groupRoom, rec.groupNum, rec.registrantId>>

\* the keys of the Competitor records a saved document holds for a round
CompetitorKeys(d, round) ==
    LET recs == RecordsOf(d, round, "competitor")
    IN [i \in 1..Len(recs) |-> RecordKey(recs[i])]

\* the keys in the order of the round's group activities and, inside one
\* activity, of getCompetitorsFromActId
ListedKeys(eventId, round) ==
    LET actIds == getGroupActIds(wcif, eventId, round)
    IN Flatten([a \in 1..Len(actIds) |->
          LET ids == getCompetitorsFromActId(wcif, actIds[a])
          IN [i \in 1..Len(ids) |->
                <<getGroupRoom(wcif, actIds[a]), getGroupNum(wcif, actIds[a]), ids[i]>>]])

\* C3: in the records of an event the rounds come in ascending order
\* 1..numRounds; within a round the Competitor records are in the order the
\* round's group activities are listed and, inside one activity, in the
\* order getCompetitorsFromActId returns the competitors; the RoundBlank
\* records of a round come after every Competitor record of that round and
\* before any record of the next round.
C3_RecordOrder ==
    \A k \in 1..Len(saved) :
        LET d == saved[k]
            s == d.scData
        IN /\ \A i \in 1..Len(s) : s[i].round \in 1..getNumRounds(wcif, d.eventId)
           /\ \A i \in 1..(Len(s) - 1) :
                 /\ s[i].round <= s[i + 1].round
                 /\ (s[i].round = s[i + 1].round /\ s[i].type = "roundBlank")
                       => s[i + 1].type = "roundBlank"
           /\ \A round \in 1..getNumRounds(wcif, d.eventId) :
                 CompetitorKeys(d, round) = ListedKeys(d.eventId, round)

\* a saved event of two rounds, both with competitors and blanks, whose
\* round 1 has two competitors in the group listed first (group 2) and one in
\* the group listed second (group 1)
C3_Witness ==
    \E k \in 1..Len(saved) :
        LET d == saved[k]
        IN /\ NumCompetitorRecords(d, 2) > 0
           /\ NumBlankRecords(d, 1) > 0
           /\ NumBlankRecords(d, 2) > 0
           /\ NumCompetitorRecords(d, 1) = 3
           /\ RecordsOf(d, 1, "competitor")[1].groupNum = 2
           /\ RecordsOf(d, 1, "competitor")[2].groupNum = 2
           /\ RecordsOf(d, 1, "competitor")[3].groupNum = 1

\* the group activities of a round as the competition document lists them,
\* each with the name of its room and the group number its code ends with
DocGroupActs(eventId, round) ==
    UNION {UNION {{[act |-> top.childActivities[c], room |-> room.name,
                    group |-> top.childActivities[c].activityCode[5]] :
                      c \in 1..Len(top.childActivities)} :
                  top \in {room.activities[t] : t \in
                             {t \in 1..Len(room.activities) :
                                 room.activities[t].activityCode = RoundId(eventId, round)}}} :
           room \in {wcif.schedule.venues[1].rooms[q] :
                        q \in 1..Len(wcif.schedule.venues[1].rooms)}}

\* the persons the document assigns to an activity as competitors
DocCompetitors(actId) ==
    {wcif.persons[i].registrantId : i \in
        {i \in 1..Len(wcif.persons) :
            \E a \in 1..Len(wcif.persons[i].assignments) :
                wcif.persons[i].assignments[a] =
                    [activityId |-> actId, assignmentCode |-> "competitor"]}}

\* C4: for a round there is exactly one Competitor record for each pair of a
\* group activity of the round and a person assigned to it with assignment
\* code 'competitor', and no other Competitor record; the record's group
\* number and room name are those of that activity in the document.
C4_OneRecordPerAssignment ==
    \A ir \in SavedRounds :
        LET d == saved[ir[1]]
            keys == CompetitorKeys(d, ir[2])
            pairs == UNION {{<<g.room, g.group, p>> : p \in DocCompetitors(g.act.id)} :
                              g \in DocGroupActs(d.eventId, ir[2])}
            said == [i \in 1..Len(keys) |->
                        <<keys[i][1], ToString(keys[i][2]), keys[i][3]>>]
        IN /\ \A pair \in pairs :
                 Cardinality({i \in 1..Len(said) : said[i] = pair}) = 1
           /\ \A i \in 1..Len(said) : said[i] \in pairs

\* a saved round with two group activities in two rooms: one person competes
\* in both, another competes in one of them and is a judge in the other
C4_Witness ==
    \E k \in 1..Len(saved) :
        /\ saved[k].eventId = "333"
        /\ \E p, q \in DocCompetitors(ActIdOf(1, 1)) :
              /\ p \in DocCompetitors(ActIdOf(1, 2))
              /\ q \notin DocCompetitors(ActIdOf(1, 2))
              /\ \E i \in 1..Len(wcif.persons) :
                    /\ wcif.persons[i].registrantId = q
                    /\ competingInActAnyCode(wcif.persons[i], ActIdOf(1, 2))
        /\ NumCompetitorRecords(saved[k], 1) >= 3

\* C5: for every Competitor record the formatted group label is the current
\* value of the room-abbreviation option of the record's room followed by
\* the record's group number; with an empty abbreviation the label is just
\* the group number.
C5_GroupLabel ==
    \A k \in 1..Len(saved) :
        \A i \in 1..Len(saved[k].scData) :
            LET scData == saved[k].scData[i]
            IN scData.type = "competitor" =>
                  saved[k].scPdf[i].group =
                     optionsObj[RoomGenId(scData.groupRoom)].value
                        \o <<ToString(scData.groupNum)>>

\* the run the C5 failure shows on: the abbreviation of room "blue" is set to
\* "7" and the label of a scorecard of group 2 in that room is "undefined2"
C5_UndefinedLabel ==
    \E k \in 1..Len(saved) :
        \E i \in 1..Len(saved[k].scData) :
            /\ saved[k].scData[i].type = "competitor"
            /\ saved[k].scData[i].groupRoom = Room1
            /\ saved[k].scData[i].groupNum = 2
            /\ optionsObj[RoomGenId(Room1)].value = <<"7">>
            /\ saved[k].scPdf[i].group = <<"undefined", "2">>

---------------------------------------------------------------------------
(* Specification of getNumAdvancingToRound: a document is given and the
   method is called for a round of "333" *)

\* the advancement conditions of the documents
AdvConds ==
    {[type |-> "percent", level |-> 50], [type |-> "percent", level |-> 70],
     [type |-> "ranking", level |-> 8], [type |-> "ranking", level |-> 90]}

\* the numbers of competitors of a later round: none, or two
LaterCounts == {0, 2}

\* the documents: n persons compete in round 1, the first `dup` of them in
\* both groups and the others in group 1
InitAdv ==
    /\ wcif \in
          UNION {{DocWith(MaxPersons, numRounds,
                          First(MaxPersons, nd[2], nd[1] - nd[2], 0), later, conds) :
                      later \in [2..numRounds -> LaterCounts],
                      conds \in [1..(numRounds - 1) -> AdvConds]} :
                 <<numRounds, nd>> \in (1..MaxAdvRounds) \X
                    {nd \in (0..MaxPersons) \X (0..1) : nd[2] <= nd[1]}}
    /\ advCall = NullObj
    /\ nlCall = NullObj
    /\ idCall = NullObj
    /\ optionsTabArr = NullObj
    /\ optionsFormInputs = <<>>
    /\ optionsObj = NullObj
    /\ saved = <<>>
    /\ compIdFormHidden = FALSE
    /\ optionsFormHidden = TRUE
    /\ pending = {}
    /\ formError = ""
    /\ numSubmits = 0

\* wcif.getNumAdvancingToRound('333', round)
CallGetNumAdvancingToRound ==
    /\ wcif # NullObj
    /\ \E round \in 1..getNumRounds(wcif, "333") :
          advCall' = [eventId |-> "333", round |-> round,
                      result |-> getNumAdvancingToRound(wcif, "333", round)]
    /\ UNCHANGED <<derivVars, idCall, nlCall, uiVars>>

NextAdv == CallGetNumAdvancingToRound

SpecAdv == InitAdv /\ [][NextAdv]_vars

---------------------------------------------------------------------------
(* Properties of getNumAdvancingToRound *)

\* the distinct persons the document assigns as competitors to the group
\* activities of a round
DistinctCompetitors(eventId, round) ==
    UNION {DocCompetitors(g.act.id) : g \in DocGroupActs(eventId, round)}

\* the persons with an accepted registration for the event
Registered(eventId) ==
    {wcif.persons[i].registrantId : i \in
        {i \in 1..Len(wcif.persons) :
            /\ wcif.persons[i].registration # NullObj
            /\ wcif.persons[i].registration.status = "accepted"
            /\ wcif.persons[i].registration.isCompeting
            /\ \E e \in 1..Len(wcif.persons[i].registration.eventIds) :
                  wcif.persons[i].registration.eventIds[e] = eventId}}

\* the advancement condition of a round, as the document gives it
DocCondition(eventId, round) ==
    LET ev == CHOOSE e \in {wcif.events[i] : i \in 1..Len(wcif.events)} : e.id = eventId
    IN ev.rounds[round].advancementCondition

\* the running total t after the conditions of rounds from..to - 1, in
\* ascending round order, in exact arithmetic
RECURSIVE ApplyConditions(_, _, _, _)
ApplyConditions(eventId, t, from, to) ==
    IF from >= to THEN t
    ELSE LET cond == DocCondition(eventId, from)
         IN ApplyConditions(eventId,
                            IF cond.type = "ranking" THEN cond.level
                            ELSE (t * cond.level) \div 100,
                            from + 1, to)

\* the reference computation for a round r > 1 with no groups assigned
Reference(eventId, r) ==
    LET b == CHOOSE i \in 1..(r - 1) :
                /\ i = 1 \/ DistinctCompetitors(eventId, i) # {}
                /\ \A j \in (i + 1)..(r - 1) : DistinctCompetitors(eventId, j) = {}
        count == IF DistinctCompetitors(eventId, b) # {}
                 THEN Cardinality(DistinctCompetitors(eventId, b))
                 ELSE Cardinality(Registered(eventId))
    IN ApplyConditions(eventId, count, b, r)

\* C6: for a round whose groups are already assigned, getNumAdvancingToRound
\* returns the number of distinct competitors across the round's group
\* activities: a person assigned as competitor to more than one group
\* activity of the round is counted once.
C6_CountsDistinctCompetitors ==
    (advCall # NullObj /\ DistinctCompetitors(advCall.eventId, advCall.round) # {})
    => advCall.result = Cardinality(DistinctCompetitors(advCall.eventId, advCall.round))

\* the call the C6 failure shows on: round 1 with three competitors, one of
\* them in both groups, for which 4 is returned
C6_CountedTwice ==
    /\ advCall # NullObj
    /\ advCall.round = 1
    /\ Cardinality(DistinctCompetitors("333", 1)) = 3
    /\ DocCompetitors(ActIdOf(1, 1)) \cap DocCompetitors(ActIdOf(1, 2)) # {}
    /\ advCall.result = 4

\* C7: for round 1 of an event with no groups assigned,
\* getNumAdvancingToRound returns the event's registration count, not the
\* number of group assignments.
C7_FirstRoundRegistrationCount ==
    (/\ advCall # NullObj
     /\ advCall.round = 1
     /\ DistinctCompetitors(advCall.eventId, 1) = {})
    => advCall.result = Cardinality(Registered(advCall.eventId))

\* the call the C7 failure shows on: every person is registered for the
\* event, round 1 has no competitor assigned, and 0 is returned
C7_ZeroReturned ==
    /\ advCall # NullObj
    /\ advCall.round = 1
    /\ DistinctCompetitors("333", 1) = {}
    /\ Cardinality(Registered("333")) = MaxPersons
    /\ advCall.result = 0

\* C8: for a round r > 1 with no groups assigned, getNumAdvancingToRound
\* equals the reference computation: from the competitor count of the nearest
\* earlier round b that has groups assigned or is round 1, apply the
\* conditions of rounds b..r-1 in ascending order, a percent condition
\* replacing the total t by floor(t * pct / 100) and a ranking condition by
\* its level.
C8_EqualsReference ==
    (/\ advCall # NullObj
     /\ advCall.round > 1
     /\ DistinctCompetitors(advCall.eventId, advCall.round) = {})
    => advCall.result = Reference(advCall.eventId, advCall.round)

\* the call the C8 failure shows on: round 1 has groups, each competitor in
\* one group, and lets the best 90 advance; round 2 lets 70 percent advance;
\* for round 3 the reference gives 63 and 62 is returned
C8_FloatSlip ==
    /\ advCall # NullObj
    /\ advCall.round = 3
    /\ DistinctCompetitors("333", 1) # {}
    /\ DocCompetitors(ActIdOf(1, 1)) \cap DocCompetitors(ActIdOf(1, 2)) = {}
    /\ DistinctCompetitors("333", 2) = {}
    /\ DistinctCompetitors("333", 3) = {}
    /\ DocCondition("333", 1) = [type |-> "ranking", level |-> 90]
    /\ DocCondition("333", 2) = [type |-> "percent", level |-> 70]
    /\ Reference("333", 3) = 63
    /\ advCall.result = 62

---------------------------------------------------------------------------
(* Specification of the option ids: genId is called on two keys *)

\* the characters of the room names
RoomChars == {"A", " ", "-"}

\* the room names: 1..MaxRoomLen characters
RoomNameSet == UNION {[1..n -> RoomChars] : n \in 1..MaxRoomLen}

\* the (event, round) pairs
EventRounds == {"333", "222", "333bf"} \X (1..MaxRounds)

\* the tokens of an id hold a space
HasSpace(id) == \E i \in 1..Len(id) : id[i] = " "

\* genId is about to be called on two keys
InitIds ==
    /\ \E kind \in {"rounds", "rooms", "both"} :
          \E a \in (IF kind = "rounds" THEN EventRounds ELSE RoomNameSet) :
             \E b \in (IF kind = "rooms" THEN RoomNameSet ELSE EventRounds) :
                idCall = [kind |-> kind, keys |-> <<a, b>>, ids |-> <<>>, spaces |-> <<>>]
    /\ advCall = NullObj
    /\ nlCall = NullObj
    /\ wcif = NullObj
    /\ optionsTabArr = NullObj
    /\ optionsFormInputs = <<>>
    /\ optionsObj = NullObj
    /\ saved = <<>>
    /\ compIdFormHidden = FALSE
    /\ optionsFormHidden = TRUE
    /\ pending = {}
    /\ formError = ""
    /\ numSubmits = 0

\* RoundBlanksOption.genId on two (event, round) pairs
CallRoundBlanksGenId ==
    /\ idCall.kind = "rounds"
    /\ idCall.ids = <<>>
    /\ LET a == idCall.keys[1]
           b == idCall.keys[2]
       IN idCall' = [idCall EXCEPT
                       !.ids = <<Str(RoundBlanksGenId(a[1], a[2])),
                                 Str(RoundBlanksGenId(b[1], b[2]))>>,
                       !.spaces = <<HasSpace(RoundBlanksGenId(a[1], a[2])),
                                    HasSpace(RoundBlanksGenId(b[1], b[2]))>>]
    /\ UNCHANGED <<derivVars, advCall, nlCall, uiVars>>

\* RoomOption.genId on two room names
CallRoomGenId ==
    /\ idCall.kind = "rooms"
    /\ idCall.ids = <<>>
    /\ LET a == idCall.keys[1]
           b == idCall.keys[2]
       IN idCall' = [idCall EXCEPT
                       !.ids = <<Str(RoomGenId(a)), Str(RoomGenId(b))>>,
                       !.spaces = <<HasSpace(RoomGenId(a)), HasSpace(RoomGenId(b))>>]
    /\ UNCHANGED <<derivVars, advCall, nlCall, uiVars>>

\* RoomOption.genId on a room name and RoundBlanksOption.genId on an
\* (event, round) pair
CallBothGenId ==
    /\ idCall.kind = "both"
    /\ idCall.ids = <<>>
    /\ LET a == idCall.keys[1]
           b == idCall.keys[2]
       IN idCall' = [idCall EXCEPT
                       !.ids = <<Str(RoomGenId(a)), Str(RoundBlanksGenId(b[1], b[2]))>>,
                       !.spaces = <<HasSpace(RoomGenId(a)),
                                    HasSpace(RoundBlanksGenId(b[1], b[2]))>>]
    /\ UNCHANGED <<derivVars, advCall, nlCall, uiVars>>

NextIds ==
    \/ CallRoundBlanksGenId
    \/ CallRoomGenId
    \/ CallBothGenId

SpecIds == InitIds /\ [][NextIds]_vars

\* C9: option ids are collision-free: RoundBlanksOption.genId gives distinct
\* ids for distinct (event, round) pairs, RoomOption.genId gives distinct ids
\* for distinct room names and its result has every space of the room name
\* replaced, and no room id equals a round-blanks id.
C9_IdsCollisionFree ==
    (idCall # NullObj /\ idCall.ids # <<>>) =>
       /\ idCall.kind \in {"rounds", "rooms"} =>
             (idCall.keys[1] # idCall.keys[2] => idCall.ids[1] # idCall.ids[2])
       /\ idCall.kind = "rooms" => (~idCall.spaces[1] /\ ~idCall.spaces[2])
       /\ idCall.kind = "both" => idCall.ids[1] # idCall.ids[2]

\* the calls the C9 failure shows on: the room names "A A" and "A-A" get the
\* same id
C9_RoomIdsCollide ==
    /\ idCall # NullObj
    /\ idCall.kind = "rooms"
    /\ idCall.keys = <<<<"A", " ", "A">>, <<"A", "-", "A">>>>
    /\ idCall.ids = <<"room-abbr-A-A", "room-abbr-A-A">>

---------------------------------------------------------------------------
(* Specification of a session: competition ids are submitted, the fetches
   resolve or fail, the user goes back or downloads *)

\* the competition ids typed into the form; no competition "nope" exists
CompIds == {"OpenA", "OpenB", "nope"}

\* the document the server holds for a competition id
ServerDoc(compId) ==
    IF compId = "OpenA"
    THEN [Doc(1, 1, First(1, 0, 0, 1), <<>>) EXCEPT !.compId = compId]
    ELSE [Doc(2, 2, First(2, 0, 1, 1), [r \in 2..2 |-> 0]) EXCEPT !.compId = compId]

\* the message of compIdToOptions for an HttpError
HttpErrorText ==
    "Could not get competition data. Are you sure the competition ID is correct?"

InitUI ==
    /\ wcif = NullObj
    /\ optionsTabArr = NullObj
    /\ optionsFormInputs = <<>>
    /\ optionsObj = NullObj
    /\ saved = <<>>
    /\ advCall = NullObj
    /\ nlCall = NullObj
    /\ idCall = NullObj
    /\ compIdFormHidden = FALSE
    /\ optionsFormHidden = TRUE
    /\ pending = {}
    /\ formError = ""
    /\ numSubmits = 0

\* compIdToOptions(event) up to `await WCIF.fromCompId(compId)`: the options
\* form is emptied, the error is cleared and the fetch is started.  The
\* suspended call is recorded with the values wcif and optionsTabArr had when
\* it was submitted (history fields, read by no action).
SubmitCompId ==
    /\ ~compIdFormHidden
    /\ numSubmits < MaxSubmits
    /\ \E compId \in CompIds :
          pending' = pending \cup {[n |-> numSubmits + 1, compId |-> compId,
                                    wcifBefore |-> wcif,
                                    tabsBefore |-> optionsTabArr]}
    /\ numSubmits' = numSubmits + 1
    /\ optionsFormInputs' = <<>>
    /\ formError' = ""
    /\ UNCHANGED <<derivVars, pureVars, compIdFormHidden, optionsFormHidden,
                   optionsTabArr>>

\* the fetch of a suspended call resolves with an ok response: the rest of
\* compIdToOptions builds the tabs and their inputs and shows the options form
FetchResolves ==
    \E f \in pending :
        /\ f.compId # "nope"
        /\ pending' = pending \ {f}
        /\ wcif' = ServerDoc(f.compId)
        /\ optionsTabArr' = optTabsCreate(wcif')
        /\ optionsFormInputs' = optionsFormInputs \o InputsFor(optionsTabArr')
        /\ compIdFormHidden' = TRUE
        /\ optionsFormHidden' = FALSE
        /\ UNCHANGED <<optionsObj, saved, pureVars, formError, numSubmits>>

\* the response is not ok: fromCompId throws an HttpError and the catch
\* block of compIdToOptions shows the message
FetchHttpError ==
    \E f \in pending :
        /\ pending' = pending \ {f}
        /\ formError' = HttpErrorText
        /\ UNCHANGED <<derivVars, pureVars, compIdFormHidden, optionsFormHidden,
                       optionsTabArr, optionsFormInputs, numSubmits>>

\* fetch itself rejects (no network): the error is no HttpError and the
\* catch block returns without a message
FetchRejects ==
    \E f \in pending :
        /\ pending' = pending \ {f}
        /\ UNCHANGED <<derivVars, pureVars, compIdFormHidden, optionsFormHidden,
                       optionsTabArr, optionsFormInputs, formError, numSubmits>>

\* a back button that leaves wcif as it is
optionsToCompIdKeepsWcif ==
    /\ ~optionsFormHidden
    /\ optionsTabArr' = NullObj
    /\ compIdFormHidden' = FALSE
    /\ optionsFormHidden' = TRUE
    /\ UNCHANGED <<derivVars, pureVars, optionsFormInputs, pending,
                   formError, numSubmits>>

\* optionsToCompId(event): the back button
optionsToCompId ==
    /\ ~optionsFormHidden
    /\ optionsTabArr' = NullObj
    /\ wcif' = NullObj
    /\ compIdFormHidden' = FALSE
    /\ optionsFormHidden' = TRUE
    /\ UNCHANGED <<optionsObj, saved, pureVars, optionsFormInputs, pending,
                   formError, numSubmits>>

NextUI ==
    \/ SubmitCompId
    \/ FetchResolves
    \/ FetchHttpError
    \/ FetchRejects
    \/ optionsToCompId
    \/ optionsToPdf

SpecUI == InitUI /\ [][NextUI]_vars

\* C10: within one session at most one fetch of the competition document is
\* outstanding at any time: after a submit has started a fetch, no second
\* fetch can start until the first has resolved or failed.
C10_OneOutstandingFetch == Cardinality(pending) <= 1

\* the state the C10 failure shows on: the fetches of the first and of the
\* second submit are both outstanding
C10_TwoFetchesOutstanding ==
    /\ numSubmits = 2
    /\ {f.n : f \in pending} = {1, 2}

\* a step in which a suspended compIdToOptions call leaves through its catch
\* block (main.js 39-53)
RetrievalFails == FetchHttpError \/ FetchRejects

\* what a step leaves alone when it builds nothing: no input is appended, the
\* options form keeps its visibility and no generation runs
NothingBuilt ==
    /\ optionsFormInputs' = optionsFormInputs
    /\ optionsFormHidden' = optionsFormHidden
    /\ optionsObj' = optionsObj
    /\ saved' = saved

\* C11: when the retrieval of the competition document fails, wcif and
\* optionsTabArr have the values they had before the submit of the failing
\* call, no options or tabs are built, the options form is not made visible
\* and no PDF generation starts.
C11_FailureKeepsSubmitState ==
    [][RetrievalFails =>
          /\ NothingBuilt
          /\ \A f \in pending \ pending' :
                /\ wcif' = f.wcifBefore
                /\ optionsTabArr' = f.tabsBefore]_vars

\* the state after the C11 failure: both submits were made before either
\* fetch came back, one fetch resolved and one failed, and the document of
\* the resolved one is in wcif
C11_FailedBesideResolved ==
    /\ numSubmits = 2
    /\ pending = {}
    /\ formError = HttpErrorText
    /\ wcif # NullObj
    /\ ~optionsFormHidden

\* C12: every failed retrieval ends with the "Could not get competition
\* data" message shown, whether the fetch itself failed or the response had
\* a non-success status.
C12_EveryFailureShowsMessage ==
    [][RetrievalFails => formError' = HttpErrorText]_vars

\* the state after the C12 failure: the only submit has failed, nothing was
\* ever built, and no message is shown
C12_FailedWithoutMessage ==
    /\ numSubmits = 1
    /\ pending = {}
    /\ wcif = NullObj
    /\ optionsFormInputs = <<>>
    /\ ~compIdFormHidden
    /\ formError = ""

---------------------------------------------------------------------------
(* Specification of formatting: competitions whose rounds differ in format,
   cutoff and time limit and whose persons differ in name are loaded, the
   user edits the options and downloads *)

\* the competition all these documents vary: two persons, "333" with an
\* assigned round 1 and an unassigned round 2, "222" with an assigned round 1
FmtBase == Doc(2, 2, First(2, 0, 1, 1), [r \in 2..2 |-> 0])

\* the rounds that are varied: <<index of the event, round>>
FmtRounds == {<<1, 1>>, <<1, 2>>, <<3, 1>>}

Formats == {"a", "m", "1", "2", "3", "5"}

\* durations in centiseconds
Durations == {0, 1, 99, 100, 110, 5999, 6000, 6025, 6100, 7000, 60000,
              359999, 360000, 366100, 366125, 720000}

\* the cutoffs the document can declare for a round: none, or a threshold
\* of 1 to 3 attempts, which nothing compares with the attempts of the
\* round's format
CutoffsOf(format) ==
    {NullObj} \cup
    UNION {{[numberOfAttempts |-> k, attemptResult |-> d] :
               d \in (IF k < formatToAttempts(format) THEN {100, 7000} ELSE {7000})} :
           k \in 1..3}

\* the lists of rounds that share a cumulative time limit
CumulLists ==
    {<<>>,
     <<RoundId("333", 1)>>,
     <<RoundId("333", 1), RoundId("222", 1)>>,
     <<RoundId("333", 1), RoundId("333", 2), RoundId("222", 1)>>}

\* person names, one character a token
PersonNames ==
    {<<"A", "l">>,
     <<"A", "l", " ", "(", "X", "y", ")">>,
     <<"A", "l", "(", "X", ")">>,
     <<"A", " ", "(", "B", ")", " ", "(", "C", ")">>,
     <<"A", "l", " ", "(", "X", ")", " ">>,
     <<"A", "l", " ">>}

\* the base competition with "333mbf" (its activities carry the attempt
\* suffix, its rounds no time limit) in the place of "222"
MbfDoc(format, cutoff) ==
    [FmtBase EXCEPT
        !.events[3] =
            [id |-> "333mbf",
             rounds |-> <<[id |-> RoundId("333mbf", 1),
                           format |-> format,
                           cutoff |-> cutoff,
                           timeLimit |-> NullObj,
                           advancementCondition |-> NullObj]>>],
        !.schedule.venues[1].rooms[2].activities[1] =
            [id |-> 29,
             activityCode |-> <<"333mbf", "-r", "1", "-a", "1">>,
             childActivities |->
                <<[id |-> Act222,
                   activityCode |-> <<"333mbf", "-r", "1", "-g", "1", "-a", "1">>]>>]]

InitFmt ==
    /\ wcif \in
          {[FmtBase EXCEPT !.events[er[1]].rounds[er[2]].format = fc[1],
                           !.events[er[1]].rounds[er[2]].cutoff = fc[2]] :
              er \in FmtRounds,
              fc \in UNION {{<<f, c>> : c \in CutoffsOf(f)} : f \in Formats}}
          \cup
          {[FmtBase EXCEPT !.events[1].rounds[1].timeLimit =
                               [centiseconds |-> d, cumulativeRoundIds |-> ids]] :
              d \in Durations \ {0}, ids \in CumulLists}
          \cup
          {[FmtBase EXCEPT !.events[1].rounds[1].timeLimit.centiseconds = 0]}
          \cup
          {[FmtBase EXCEPT !.persons[2].name = name] : name \in PersonNames}
          \cup
          {MbfDoc(f, c) : f \in {"1", "2", "3"},
                          c \in {NullObj, [numberOfAttempts |-> 1, attemptResult |-> 7000]}}
    /\ optionsTabArr = optTabsCreate(wcif)
    /\ optionsFormInputs = InputsFor(optionsTabArr)
    /\ optionsObj = NullObj
    /\ saved = <<>>
    /\ advCall = NullObj
    /\ nlCall = NullObj
    /\ idCall = NullObj
    /\ compIdFormHidden = TRUE
    /\ optionsFormHidden = FALSE
    /\ pending = {}
    /\ formError = ""
    /\ numSubmits = 1

SpecFmt == InitFmt /\ [][Next]_vars

---------------------------------------------------------------------------
(* Properties of the formatted scorecards *)

\* the pairs <<record, formatted scorecard>> of the saved documents
FormattedPairs ==
    UNION {{<<saved[k].scData[i], saved[k].scPdf[i]>> : i \in 1..Len(saved[k].scPdf)} :
              k \in 1..Len(saved)}

\* the rounds of the events of getEventIds(): <<position of the event, round>>
SavedEventRounds ==
    UNION {{<<e, r>> : r \in 1..getNumRounds(wcif, getEventIds(wcif)[e])} :
              e \in 1..Len(getEventIds(wcif))}

\* the round declares a cutoff whose attempt threshold is neither 1 nor 2
DeclaresOtherThreshold(e, r) ==
    LET cutoff == getRoundObj(wcif, getEventIds(wcif)[e], r).cutoff
    IN cutoff # NullObj /\ cutoff.numberOfAttempts \notin {1, 2}

\* the round has a scorecard record in this run
HasRecords(e, r) ==
    getScDataForRound(wcif, optionsObj, getEventIds(wcif)[e], r) # <<>>

\* no document is saved for the e-th event or for an event after it
NothingSavedFrom(e) ==
    \A k \in 1..Len(saved) :
        \A j \in e..Len(getEventIds(wcif)) : saved[k].eventId # getEventIds(wcif)[j]

AttemptCount(format) ==
    CASE format = "a" -> 5
      [] format = "m" -> 3
      [] format = "1" -> 1
      [] format = "2" -> 2
      [] format = "3" -> 3
      [] format = "5" -> 5

\* a value given in hundredths, written with its two decimals when it is
\* no whole number
ValueText(value100) ==
    IF value100 % 100 = 0 THEN ToString(value100 \div 100)
    ELSE ToString(value100 \div 100) \o "." \o ToString((value100 \div 10) % 10)
            \o ToString(value100 % 10)

\* '<value> <unit>' with the unit in the plural unless the value is 1;
\* nothing for the value 0
Rendered(value100, unit) ==
    IF value100 = 0 THEN <<>>
    ELSE <<ValueText(value100) \o " " \o unit \o (IF value100 = 100 THEN "" ELSE "s")>>

\* the human-readable duration of c centiseconds: hours, minutes and seconds
\* in that order, joined by single spaces
HumanDuration(c) ==
    LET parts == Rendered(100 * (c \div 360000), "hour")
                    \o Rendered(100 * ((c \div 6000) % 60), "minute")
                    \o Rendered(c % 6000, "second")
    IN CASE Len(parts) = 0 -> ""
         [] Len(parts) = 1 -> parts[1]
         [] Len(parts) = 2 -> parts[1] \o " " \o parts[2]
         [] Len(parts) = 3 -> parts[1] \o " " \o parts[2] \o " " \o parts[3]

C15_NoCutoffFields ==
    \A pair \in FormattedPairs :
        LET sc == pair[1]
            f == pair[2]
        IN sc.cutoffCentisec = Null =>
              IF sc.format \in {"a", "m"} /\ sc.eventId # "333mbf"
              THEN /\ f.attemptsPreCutoff = (IF sc.format = "a" THEN 2 ELSE 1)
                   /\ f.attemptsPostCutoff = AttemptCount(sc.format) - f.attemptsPreCutoff
                   /\ f.cutoffText = "N/A"
              ELSE /\ f.attemptsPreCutoff = AttemptCount(sc.format)
                   /\ f.attemptsPostCutoff = NullAttempts
                   /\ f.cutoffText = NullText

\* scorecards without a cutoff saved together: of a round of format a
\* (2, 3, 'N/A') and of a multi-blind round of a numeric format
C15_BothKindsFormatted ==
    /\ \E pair \in FormattedPairs :
          /\ pair[1].format = "a"
          /\ pair[1].cutoffCentisec = Null
          /\ pair[2].attemptsPreCutoff = 2
          /\ pair[2].attemptsPostCutoff = 3
          /\ pair[2].cutoffText = "N/A"
    /\ \E pair \in FormattedPairs :
          /\ pair[1].eventId = "333mbf"
          /\ pair[1].format = "3"
          /\ pair[2].attemptsPreCutoff = 3
          /\ pair[2].attemptsPostCutoff = NullAttempts
          /\ pair[2].cutoffText = NullText

\* C16: the human-readable duration of c centiseconds lists hours
\* (c div 360000), minutes ((c div 6000) mod 60) and seconds ((c mod 6000) /
\* 100, the fraction kept to centiseconds) in that order, each non-zero
\* component as '<value> <unit>' with the unit in the plural unless the value
\* is exactly 1, joined by single spaces; c = 0 gives the empty string
\* (100 -> '1 second', 360000 -> '1 hour').  The duration of a time limit is
\* the whole sentence of a cumulative limit of one round and what follows
\* 'DNF if >= ' in the sentence of a limit per solve.
C16_DurationText ==
    \A pair \in FormattedPairs :
        LET sc == pair[1]
            f == pair[2]
            D == IF Len(sc.cumulRoundInfos) = 0
                 THEN "DNF if " \o GeqSign \o " " \o HumanDuration(sc.timeLimit)
                 ELSE HumanDuration(sc.timeLimit)
        IN (sc.eventId # "333mbf" /\ Len(sc.cumulRoundInfos) <= 1) =>
              /\ f.timeLimitEndText = D
              /\ (sc.timeLimit = 0 => f.timeLimitEndText = "DNF if " \o GeqSign \o " ")
              /\ (sc.timeLimit = 100 /\ Len(sc.cumulRoundInfos) = 1)
                    => f.timeLimitEndText = "1 second"
              /\ (sc.timeLimit = 360000 /\ Len(sc.cumulRoundInfos) = 1)
                    => f.timeLimitEndText = "1 hour"
              /\ (sc.timeLimit = 6025 /\ Len(sc.cumulRoundInfos) = 1)
                    => f.timeLimitEndText = "1 minute 0.25 seconds"

\* a scorecard whose time limit has all three components, the seconds with
\* a fraction
C16_ThreeComponents ==
    \E pair \in FormattedPairs :
        /\ pair[1].timeLimit = 366125
        /\ Len(pair[1].cumulRoundInfos) = 1
        /\ pair[2].timeLimitEndText = "1 hour 1 minute 1.25 seconds"

\* the event+round label of a round of these documents
LabelOf(info) ==
    CASE info.eventId = "333" /\ info.round = 1 -> "3x3x3 Cube Round 1"
      [] info.eventId = "333" /\ info.round = 2 -> "3x3x3 Cube Final"
      [] info.eventId = "222" /\ info.round = 1 -> "2x2x2 Cube Final"

SplitOf(name) ==
    LET openPar == FirstIndexIn(name, {"("})
    IN IF openPar = 0 THEN <<name, NullName>>
       ELSE <<trim(SubSeq(name, 1, openPar - 1)),
              SubSeq(name, openPar + 1, Len(name) - 1)>>

\* C18 (as stated): the name parts of a competitor's scorecard are the split
\* of the person's name.
C18_SplitOfName ==
    \A pair \in FormattedPairs :
        pair[1].type = "competitor" =>
            <<pair[2].personNameRoman, pair[2].personNameTrans>>
                = SplitOf(pair[1].personName)

\* C18 (amended): the name parts of a competitor's scorecard are the split of
\* the person's name with its surrounding whitespace trimmed.
C18_SplitOfTrimmedName ==
    \A pair \in FormattedPairs :
        pair[1].type = "competitor" =>
            <<pair[2].personNameRoman, pair[2].personNameTrans>>
                = SplitOf(trim(pair[1].personName))

\* the scorecard of the person named 'Al (X) ': the parts are 'Al' and 'X'
C18_SpaceAfterParenthesis ==
    \E pair \in FormattedPairs :
        /\ pair[1].type = "competitor"
        /\ pair[1].personName = <<"A", "l", " ", "(", "X", ")", " ">>
        /\ pair[2].personNameRoman = <<"A", "l">>
        /\ pair[2].personNameTrans = <<"X">>

---------------------------------------------------------------------------
(* Properties of the saved documents *)

\* the smallest number of 4-scorecard chunks that hold n scorecards
CeilDiv4(n) == (n + 3) \div 4

\* C19: genScPdfEvent partitions the event's scorecard sequence into
\* consecutive chunks in order: chunk i holds records 4i..4i+3, every chunk
\* but possibly the last holds exactly 4, no chunk holds more than 4 (the
\* chunk-too-large error is never raised), and a last chunk of 1 to 3
\* records only gets the warning and is still drawn.  (The rounds of these
\* documents have no cutoff, so that an event without a saved document is an
\* event whose drawing raised the error.)
C19_ChunksOfFour ==
    /\ optionsObj # NullObj => Len(saved) = Len(getEventIds(wcif))
    /\ \A k \in 1..Len(saved) :
           LET d == saved[k]
               n == Len(d.scPdf)
           IN /\ Len(d.pages) = CeilDiv4(n)
              /\ \A p \in 1..Len(d.pages) :
                    LET chunk == d.pages[p]
                        size == IF p < Len(d.pages) THEN 4 ELSE n - 4 * (p - 1)
                    IN /\ ~chunk.thrown
                       /\ Len(chunk.drawn) = size
                       /\ size \in 1..4
                       /\ chunk.warning <=> size < 4
                       /\ \A j \in 1..size : chunk.drawn[j] = d.scPdf[4 * (p - 1) + j]

\* an event of 10 scorecards drawn as chunks of 4, 4 and 2, the last one
\* with the warning
C19_TenInThreeChunks ==
    \E k \in 1..Len(saved) :
        /\ Len(saved[k].scPdf) = 10
        /\ [p \in 1..Len(saved[k].pages) |-> Len(saved[k].pages[p].drawn)] = <<4, 4, 2>>
        /\ saved[k].pages[3].warning
        /\ ~saved[k].pages[2].warning

\* the names of the events of the documents, with underscores for spaces
UnderscoredName(eventId) ==
    CASE eventId = "333" -> "3x3x3_Cube"
      [] eventId = "222" -> "2x2x2_Cube"
      [] eventId = "333mbf" -> "3x3x3_Multi-Blind"

\* C20: after a download, exactly one document is saved per event of
\* getEventIds(), in that order, named '<compId>_<event name with spaces
\* replaced by underscores>.pdf', and the document of an event with n >= 0
\* scorecards has one page per 4-scorecard chunk, ceil(n / 4) pages.
C20_PagesAndDocuments ==
    optionsObj # NullObj =>
        /\ Len(saved) = Len(getEventIds(wcif))
        /\ \A k \in 1..Len(saved) :
              /\ saved[k].eventId = getEventIds(wcif)[k]
              /\ saved[k].fileName =
                    wcif.compId \o "_" \o UnderscoredName(saved[k].eventId) \o ".pdf"
              /\ saved[k].numPages = Len(saved[k].pages)
              /\ saved[k].numPages = CeilDiv4(Len(saved[k].scPdf))

\* the state the C20 failure shows on: an event without any scorecard, whose
\* saved document has one page and no chunk
C20_EmptyEventOnePage ==
    \E k \in 1..Len(saved) :
        /\ Len(saved[k].scPdf) = 0
        /\ saved[k].pages = <<>>
        /\ saved[k].numPages = 1


\* the origin of quadrant q: top-left, top-right, bottom-left, bottom-right
QuadrantOrigin(q) ==
    CASE q = 0 -> <<0, 0>>
      [] q = 1 -> <<pageWidth \div 2, 0>>
      [] q = 2 -> <<0, pageHeight \div 2>>
      [] q = 3 -> <<pageWidth \div 2, pageHeight \div 2>>

\* the lines run along the vertical and the horizontal midline of the page
\* and reach the four edges
ThroughMidpoints(lines) ==
    /\ \A l \in DOMAIN lines :
          \/ lines[l][1] = pageWidth \div 2 /\ lines[l][3] = pageWidth \div 2
          \/ lines[l][2] = pageHeight \div 2 /\ lines[l][4] = pageHeight \div 2
    /\ \A end \in {<<pageWidth \div 2, 0>>, <<pageWidth \div 2, pageHeight>>,
                   <<0, pageHeight \div 2>>, <<pageWidth, pageHeight \div 2>>} :
          \E l \in DOMAIN lines :
             /\ <<lines[l][1], lines[l][2]>> = <<pageWidth \div 2, pageHeight \div 2>>
             /\ <<lines[l][3], lines[l][4]>> = end

\* C21: the scorecard at 0-based position i of an event's sequence is drawn
\* on page floor(i / 4) + 1 at quadrant i mod 4, the quadrant origins being
\* top-left, top-right, bottom-left, bottom-right, and every page that holds
\* a chunk has cut lines through the horizontal and vertical midpoints
C21_PageAndQuadrant ==
    \A k \in DOMAIN saved :
       /\ \A i \in 0..(Len(saved[k].scPdf) - 1) :
             \E p \in DOMAIN saved[k].pages :
                /\ saved[k].pages[p].page = (i \div 4) + 1
                /\ (i % 4) + 1 \in DOMAIN saved[k].pages[p].drawn
                /\ saved[k].pages[p].drawn[(i % 4) + 1] = saved[k].scPdf[i + 1]
                /\ saved[k].pages[p].at[(i % 4) + 1] = QuadrantOrigin(i % 4)
       /\ \A p \in DOMAIN saved[k].pages :
             /\ Len(saved[k].pages[p].at) = Len(saved[k].pages[p].drawn)
             /\ ThroughMidpoints(saved[k].pages[p].cutLines)

\* a document whose sixth and seventh scorecards are on page 2, at the
\* top-right and the bottom-left corner
C21_SecondPageCorners ==
    \E k \in DOMAIN saved :
       /\ Len(saved[k].scPdf) >= 7
       /\ saved[k].pages[2].page = 2
       /\ saved[k].pages[2].drawn[2] = saved[k].scPdf[6]
       /\ saved[k].pages[2].at[2] = <<306, 0>>
       /\ saved[k].pages[2].at[3] = <<0, 396>>
       /\ saved[k].scPdf[6] # saved[k].scPdf[7]


\* C22: if no competitor is assigned to any group activity of a round,
\* getScDataForRound returns no Competitor records and exactly 4 * N
\* RoundBlank records, without filler, where N, the round's blanks option
\* value, is a whole number of pages
C22_UnassignedRoundWholePages ==
    \A ir \in SavedRounds :
        LET d == saved[ir[1]]
            round == ir[2]
            value == BlanksValue(d.eventId, round)
        IN AssignedCompetitors(wcif, d.eventId, round) = <<>>
           => /\ NumCompetitorRecords(d, round) = 0
              /\ NumBlankRecords(d, round) = value
              /\ value % 4 = 0

\* a round without assignments saved with its default option value, one
\* page and three quarters: seven blanks
C22_SevenBlanks ==
    \E ir \in SavedRounds :
        LET d == saved[ir[1]]
        IN /\ AssignedCompetitors(wcif, d.eventId, ir[2]) = <<>>
           /\ BlanksValue(d.eventId, ir[2]) = 7
           /\ NumCompetitorRecords(d, ir[2]) = 0
           /\ NumBlankRecords(d, ir[2]) = 7


\* the round-blanks options of the tabs
RoundBlanksOptions ==
    IF optionsTabArr = NullObj THEN {}
    ELSE {AllOptions(optionsTabArr)[i] : i \in
             {j \in 1..Len(AllOptions(optionsTabArr)) :
                 AllOptions(optionsTabArr)[j].id[1] = "blanks-round-"}}

\* C23: every round-blanks option built for the blanks tab has a default
\* value that is a non-negative integer (a multiple of 4 quarter pages), for
\* every competitor count, with the round's groups assigned or not
C23_DefaultIsWholeNumber ==
    \A option \in RoundBlanksOptions :
       /\ option.defaultValue >= 0
       /\ option.defaultValue % 4 = 0

\* the tabs of a competition whose second round has no assignments and three
\* competitors advancing to it: the default is one page and three quarters
C23_DefaultOfSevenQuarters ==
    \E option \in RoundBlanksOptions :
       /\ option.id[4] = "2"
       /\ ~groupsAreAssigned(wcif, option.id[2], 2)
       /\ getNumAdvancingToRound(wcif, option.id[2], 2) = 3
       /\ option.defaultValue = 7


\* the positions in the document of the events other than '333fm'
OtherEvents == {i \in 1..Len(wcif.events) : wcif.events[i].id # "333fm"}

\* C24: getEventIds never returns '333fm', even when the document has it,
\* and returns every other event id of the document exactly once in document
\* order; no option, scorecard record or document is produced for '333fm'
C24_FewestMovesExcluded ==
    wcif # NullObj =>
       /\ \A j \in 1..Len(getEventIds(wcif)) : getEventIds(wcif)[j] # "333fm"
       /\ Len(getEventIds(wcif)) = Cardinality(OtherEvents)
       /\ \A i \in OtherEvents :
             getEventIds(wcif)[Cardinality({m \in OtherEvents : m <= i})] = wcif.events[i].id
       /\ optionsTabArr # NullObj =>
             \A j \in 1..Len(AllOptions(optionsTabArr)) :
                AllOptions(optionsTabArr)[j].id[2] # "333fm"
       /\ \A k \in 1..Len(saved) :
             /\ saved[k].eventId # "333fm"
             /\ \A j \in 1..Len(saved[k].scData) : saved[k].scData[j].eventId # "333fm"
             /\ Len(saved[k].scPdf) = Len(saved[k].scData)
       /\ optionsObj # NullObj => Len(saved) = Cardinality(OtherEvents)

\* a download from a document that lists '333fm' between two other events,
\* with a competitor assigned to a '333fm' group: two documents are saved
C24_DocumentHasFewestMoves ==
    /\ wcif # NullObj
    /\ optionsObj # NullObj
    /\ \E i \in 1..Len(wcif.events) :
          /\ wcif.events[i].id = "333fm"
          /\ {i - 1, i + 1} \subseteq OtherEvents
          /\ AssignedCompetitors(wcif, "333fm", 1) # <<>>
    /\ [k \in 1..Len(saved) |-> saved[k].eventId]
          = [j \in 1..2 |-> getEventIds(wcif)[j]]


\* every round-blanks option value of the last run is a non-negative integer
WholePageValues ==
    /\ optionsObj # NullObj
    /\ \A id \in DOMAIN optionsObj :
          id[1] = "blanks-round-" =>
             optionsObj[id].value >= 0 /\ optionsObj[id].value % 4 = 0

\* C26: if every round-blanks option value is a non-negative integer, the
\* sequence of getScDataForEvent has, for every event, a length divisible by
\* 4, every page drawn by genScPdfEvent holds exactly 4 scorecards and the
\* warning of draw4Scorecards is never reached
C26_WholePagesFillEveryPage ==
    WholePageValues =>
       /\ Len(saved) = Len(getEventIds(wcif))
       /\ \A k \in 1..Len(saved) :
             /\ Len(saved[k].scData) % 4 = 0
             /\ Len(saved[k].scData) = Len(getScDataForEvent(wcif, optionsObj, saved[k].eventId))
             /\ \A p \in 1..Len(saved[k].pages) :
                   /\ Len(saved[k].pages[p].drawn) = 4
                   /\ ~saved[k].pages[p].warning

\* whole-page values and an event with an assigned round of three
\* competitors, one filler blank and a page of blanks, and a round without
\* assignments with a page of blanks: three full pages
C26_ThreeCompetitorsThreePages ==
    /\ WholePageValues
    /\ \E k \in 1..Len(saved) :
          /\ getNumRounds(wcif, saved[k].eventId) = 2
          /\ NumCompetitorRecords(saved[k], 1) = 3
          /\ NumBlankRecords(saved[k], 1) = 1 + BlanksValue(saved[k].eventId, 1)
          /\ NumCompetitorRecords(saved[k], 2) = 0
          /\ NumBlankRecords(saved[k], 2) = 4
          /\ Len(saved[k].pages) = 3
          /\ \A p \in 1..3 : Len(saved[k].pages[p].drawn) = 4

\* the scorecards drawn: <<record, formatted scorecard, attempt rows>>
DrawnScorecards ==
    UNION {{<<saved[k].scData[4 * (p - 1) + i],
              saved[k].pages[p].drawn[i],
              saved[k].pages[p].attemptRows[i]>> :
               i \in 1..Len(saved[k].pages[p].drawn)} :
           <<k, p>> \in {kp \in (1..Len(saved)) \X (1..5) :
                            kp[2] <= Len(saved[kp[1]].pages)}}

\* C27: for every format of the format table and every cutoff state (absent,
\* threshold 1, threshold 2), attemptsPostCutoff is absent or non-negative,
\* and the numbered attempt rows drawn (1..attemptsPreCutoff in the
\* pre-cutoff table, then attemptsPreCutoff + 1..attemptsPreCutoff +
\* attemptsPostCutoff in the post-cutoff table) are as many as the format
\* has attempts
C27_RowsEqualAttemptCount ==
    \A d \in DrawnScorecards :
       (d[1].cutoffCentisec = Null \/ d[1].cutoffAttempts \in {1, 2}) =>
          /\ d[2].attemptsPostCutoff = NullAttempts \/ d[2].attemptsPostCutoff >= 0
          /\ d[3].pre \o d[3].post = [j \in 1..AttemptCount(d[1].format) |-> j]

\* a scorecard of a round of format 1 whose cutoff has the threshold 2:
\* attemptsPostCutoff is -1 and two rows are drawn
C27_BestOfOneCutoffOfTwo ==
    \E d \in DrawnScorecards :
       /\ d[1].format = "1"
       /\ d[1].cutoffAttempts = 2
       /\ d[2].attemptsPreCutoff = 2
       /\ d[2].attemptsPostCutoff = -1
       /\ d[3].pre = <<1, 2>>
       /\ d[3].post = <<>>

\* the tabs with every option value put back to its default
WithDefaultValues(tabs) ==
    [t \in 1..Len(tabs) |->
        [tabs[t] EXCEPT !.options =
            [i \in 1..Len(tabs[t].options) |->
                [tabs[t].options[i] EXCEPT !.value = tabs[t].options[i].defaultValue]]]]

\* the options form is visible only with a document and the tabs built from it
VisibleFormHasItsTabs ==
    ~optionsFormHidden =>
       /\ wcif # NullObj
       /\ optionsTabArr # NullObj
       /\ WithDefaultValues(optionsTabArr) = optTabsCreate(wcif)

\* C28: after any sequence of submits, fetch completions, Back clicks and
\* Download clicks, whenever the options form is visible wcif and
\* optionsTabArr are non-null and optionsTabArr was built from the current
\* wcif; after a Back click both are null and the competition-id form is the
\* visible one
C28_VisibleFormHasDocument ==
    /\ []VisibleFormHasItsTabs
    /\ [][optionsToCompId =>
             /\ wcif' = NullObj
             /\ optionsTabArr' = NullObj
             /\ ~compIdFormHidden'
             /\ optionsFormHidden']_vars

\* the options form visible after two submits, both fetches completed, and
\* a download that has set the values of the options
C28_VisibleAfterSecondLoad ==
    /\ ~optionsFormHidden
    /\ numSubmits = 2
    /\ pending = {}
    /\ optionsObj # NullObj
    /\ wcif.compId = "OpenB"
    /\ optionsTabArr # optTabsCreate(wcif)

\* C29: whenever the options form is visible it holds exactly one input per
\* option of the current optionsTabArr and no input left over from an
\* earlier or overlapping load, in every interleaving of submits and fetch
\* completions, so that the value optionsToPdf reads for an option id is the
\* one entered for the competition held in wcif
C29_OneInputPerOption ==
    (~optionsFormHidden /\ optionsTabArr # NullObj) =>
       /\ Len(optionsFormInputs) = Len(AllOptions(optionsTabArr))
       /\ \A i \in 1..Len(optionsFormInputs) :
             optionsFormInputs[i].name = AllOptions(optionsTabArr)[i].id

\* two loads overlapped: the form shown for OpenB holds the inputs of OpenA
\* before its own
C29_InputsOfBothLoads ==
    /\ ~optionsFormHidden
    /\ wcif # NullObj
    /\ wcif.compId = "OpenB"
    /\ optionsFormInputs =
          InputsFor(optTabsCreate(ServerDoc("OpenA"))) \o InputsFor(optTabsCreate(wcif))

\* C30: for every event of getEventIds() and every round 1..numRounds(event),
\* the option id that getScDataForRoundBlanks looks up is the id of a
\* round-blanks option created when the tabs were built, and optionsToPdf
\* places that option in the options object under this id, so that the
\* derivation never reads the value of a missing option
C30_LookedUpOptionExists ==
    \A e \in 1..Len(getEventIds(wcif)) :
       \A round \in 1..getNumRounds(wcif, getEventIds(wcif)[e]) :
          LET id == RoundBlanksGenId(getEventIds(wcif)[e], round)
              blanks == optionsTabArr[3].options
          IN /\ \E i \in 1..Len(blanks) :
                   /\ blanks[i].id = id
                   /\ blanks[i].inputType = "number"
             /\ optionsObj # NullObj =>
                   /\ id \in DOMAIN optionsObj
                   /\ optionsObj[id].id = id
                   /\ optionsObj[id].inputType = "number"

\* a download of an event with two rounds: the option of round 2 was looked
\* up and its value gave the round its blanks
C30_SecondRoundOptionRead ==
    /\ optionsObj # NullObj
    /\ \E k \in 1..Len(saved) :
          /\ getNumRounds(wcif, saved[k].eventId) = 2
          /\ RoundBlanksGenId(saved[k].eventId, 2) \in DOMAIN optionsObj
          /\ BlanksValue(saved[k].eventId, 2) = 8
          /\ NumBlankRecords(saved[k], 2) >= 8

---------------------------------------------------------------------------
(* sc_data.js: getNewlineIndex.  A text is a sequence of one-character
   tokens; the font is given by the width of one character in the bold and
   in the normal style at the font size the caller has set. *)

\* const maxWidth = (doc.internal.pageSize.width / 2) - (textMargin * 2),
\* with textMargin = 19.5
maxWidth == (pageWidth \div 2) - 39

\* totalWidth of getNewlineIndex for the first line regularText.slice(0, index):
\* doc.getTextWidth(text) is the number of characters of the text times the
\* width of a character in the style set
totalWidth(call, index) ==
    Len(call.boldText \o <<":", " ">>) * call.boldWidth
       + Len(SubSeq(call.regularText, 1, index)) * call.normalWidth

\* the indices at which the for loop of getNewlineIndex returns: index runs
\* from regularText.length down to 1, indices below the length that are not
\* at a space are skipped
newlineIndices(call) ==
    {index \in 1..Len(call.regularText) :
        /\ ~(index < Len(call.regularText) /\ call.regularText[index + 1] # " ")
        /\ totalWidth(call, index) <= maxWidth}

\* getNewlineIndex(doc, boldText, regularText): the first index at which the
\* loop returns, or the Error thrown after the loop
getNewlineIndex(call) ==
    IF newlineIndices(call) = {}
    THEN [index |-> Null, thrown |-> TRUE]
    ELSE [index |-> CHOOSE i \in newlineIndices(call) :
                       \A j \in newlineIndices(call) : j <= i,
          thrown |-> FALSE]

---------------------------------------------------------------------------
(* Specification of getNewlineIndex: the function is called on a label, a
   regular text and a font *)

\* the regular texts are words of the letter a and spaces; the label and
\* the widths make texts of 0 to 4 characters fit
InitNl ==
    /\ \E regularText \in UNION {[1..n -> {"a", " "}] : n \in 0..MaxTextLen} :
          \E boldWidth \in {20, 60, 100} :
             \E normalWidth \in {30, 50, 90} :
                nlCall = [boldText |-> <<"T">>, regularText |-> regularText,
                          boldWidth |-> boldWidth, normalWidth |-> normalWidth,
                          result |-> NullObj]
    /\ advCall = NullObj
    /\ idCall = NullObj
    /\ wcif = NullObj
    /\ optionsTabArr = NullObj
    /\ optionsFormInputs = <<>>
    /\ optionsObj = NullObj
    /\ saved = <<>>
    /\ compIdFormHidden = FALSE
    /\ optionsFormHidden = TRUE
    /\ pending = {}
    /\ formError = ""
    /\ numSubmits = 0

\* getNewlineIndex(doc, boldText, regularText) is called
CallGetNewlineIndex ==
    /\ nlCall.result = NullObj
    /\ nlCall' = [nlCall EXCEPT !.result = getNewlineIndex(nlCall)]
    /\ UNCHANGED <<derivVars, advCall, idCall, uiVars>>

NextNl == CallGetNewlineIndex

SpecNl == InitNl /\ [][NextNl]_vars

---------------------------------------------------------------------------
(* Properties of getNewlineIndex *)

\* the label and the first n characters of the regular text fit the width
Fits(call, n) ==
    (Len(call.boldText) + 2) * call.boldWidth + n * call.normalWidth <= maxWidth

\* the break points that fit: the indices of the spaces of the regular text
\* before which the text fits
FittingBreaks(call) ==
    {i \in 0..(Len(call.regularText) - 1) :
        call.regularText[i + 1] = " " /\ Fits(call, i)}

\* C25: getNewlineIndex returns regularText.length whenever the label and
\* the whole regular text fit (also when the regular text is empty);
\* otherwise it returns the largest index of a space such that the label and
\* the text before that index fit; it fails only when no break point fits,
\* even down to zero characters
C25_NewlineIndex ==
    (nlCall # NullObj /\ nlCall.result # NullObj) =>
       LET len == Len(nlCall.regularText)
       IN /\ Fits(nlCall, len) =>
                ~nlCall.result.thrown /\ nlCall.result.index = len
          /\ (~Fits(nlCall, len) /\ FittingBreaks(nlCall) # {}) =>
                /\ ~nlCall.result.thrown
                /\ nlCall.result.index \in FittingBreaks(nlCall)
                /\ \A i \in FittingBreaks(nlCall) : i <= nlCall.result.index
          /\ nlCall.result.thrown =>
                ~Fits(nlCall, len) /\ FittingBreaks(nlCall) = {}

\* the call on an empty regular text whose label fits: the Error is thrown
C25_EmptyTextThrows ==
    /\ nlCall # NullObj
    /\ nlCall.result # NullObj
    /\ nlCall.regularText = <<>>
    /\ Fits(nlCall, 0)
    /\ nlCall.result.thrown

=============================================================================
